---- MODULE Spec2Model ----
(***************************************************************************)
(* A model of the news aggregation server: the retry utility and the       *)
(* circuit breaker of src/utils/retry.ts and the three-stage pipeline of   *)
(* src/news-app/server.ts (GET /api/news-stream and mergeDuplicates).      *)
(*                                                                         *)
(* Specifications:                                                         *)
(*   SpecCB     the CircuitBreaker class under arbitrary, possibly         *)
(*              overlapping, execute calls                                 *)
(*   SpecRetry  one withRetry call on an operation that may throw anything *)
(*   SpecDelay  calculateDelay on bounded inputs                           *)
(*   Spec       the process: runs of GET /api/news-stream, one after the   *)
(*              other, sharing the breaker and the client                  *)
(*   SpecMerge  a run from the end of its extraction stage on, for any     *)
(*              stories the extraction may have produced                   *)
(*   SpecSession  the QueryService sessions of the units of one stage      *)
(*   SpecStream   the event stream of one request and its disconnection    *)
(*   SpecDates    getDateRange and formatLocalDate                         *)
(*   SpecExtract  extractJsonArray and extractJsonObject on responses that *)
(*                embed JSON in prose                                      *)
(*   SpecRun      one run under the fairness that every await settles      *)
(*   SpecClient   getClient() under requests that overlap                  *)
(*   SpecAdvisory the handler of SpecStream run twice in step, with and    *)
(*                without a client that gets the events                    *)
(***************************************************************************)
EXTENDS Integers, Sequences, FiniteSets, TLC

(***************************************************************************)
(* Program constants and bounds                                            *)
(***************************************************************************)

\* new CircuitBreaker({ failureThreshold: 5, ... })
failureThreshold == 5

\* new CircuitBreaker({ ..., resetTimeoutMs: 60000, ... })
resetTimeoutMs == 60000

\* The clock advances in steps of half a cooldown.
TickMs == resetTimeoutMs \div 2

\* Date.now() of the first event: any wall clock is far past one cooldown.
StartTime == 2 * resetTimeoutMs

\* The number of clock steps of a behaviour of SpecCB.
MaxTicks == 3

\* The number of execute calls the harness of SpecCB makes.
MaxCalls == 9

\* The largest maxRetries a withRetry call of SpecRetry is given.
MaxRetriesBound == 3

\* The largest attempt index calculateDelay is applied to in SpecDelay.
MaxAttempt == 5

\* Math.random() is modelled as k / RandomDenominator, 0 <= k < RandomDenominator.
RandomDenominator == 10

\* The number of clock steps of a behaviour of Spec.
MaxRunTicks == 2

\* The number of runs of the pipeline in a behaviour of Spec.
MaxRuns == 3

\* The largest `days` a run of Spec is asked for.
MaxDays == 3

\* The most emails the QueryService lists for one date in Spec.
MaxEmailsPerDay == 2

\* The most stories the extraction hands to mergeDuplicates in SpecMerge.
MaxItems == 3

VARIABLES
    workIqCircuitBreaker, \* the breaker: its state record and the callbacks fired
    now,                  \* Date.now()
    inflight,             \* SpecCB: operations invoked by execute and not yet settled
    rejected,             \* SpecCB: execute calls that threw the breaker-open error
    succeeded,            \* SpecCB: operations that resolved
    failed,               \* SpecCB: operations that rejected
    consecFail,           \* SpecCB: operations that rejected since the last one that resolved
    halfOpens,            \* SpecCB: execute calls that found the breaker open and cooled down
    opts,                 \* withRetry: the merged options
    attempt,              \* withRetry: the loop variable
    lastError,            \* withRetry: lastError
    rpc,                  \* withRetry: "call" (awaiting fn), "sleep", "resolved", "rejected"
    log,                  \* withRetry: the calls of fn, onRetry and sleep, in order
    lastThrown,           \* withRetry: what the last call of fn threw
    outcome,              \* withRetry: the value the promise settled with
    delayArgs,            \* SpecDelay: the arguments of the last calculateDelay call
    delayMs,              \* SpecDelay: its result, times DelayScale
    run,                  \* Spec: the runs started so far
    stage,                \* Spec: where the current run is
    client,               \* Spec: the module's `client`
    params,               \* Spec: the run's days and maxNews
    fetch,                \* Spec: per date, where its fetchDay call is
    dayResults,           \* Spec: per date, what its entry of dayResults settled with
    served,               \* Spec: per date, what its QueryService call in progress or
                          \* its latest one has answered
    failedUnits,          \* Spec: the dates, batches and groups logged as failed
    rawEmails,            \* Spec: rawEmails
    batch,                \* Spec: per batch, where its processBatch call is
    batchResults,         \* Spec: per batch, what its entry of batchResults settled with
    allNewsItems,         \* Spec: allNewsItems
    group,                \* Spec: per cluster, where its processGroup call is
    mergedItems,          \* Spec: per cluster, what its entry of mergedItems settled with
    completeEvent,        \* Spec: the data of the run's complete event
    sessions,             \* SpecSession: the QueryService calls of the units of a stage
    stream,               \* SpecStream: the event stream of one request
    dateRange,            \* SpecDates: a call of getDateRange and its result
    extraction,           \* SpecExtract: a call of extractJsonArray / extractJsonObject
    requests,             \* SpecClient: the module's `client` and the requests in progress
    shadow                \* SpecAdvisory: the event stream of the same run, the client
                          \* connected throughout

cbVars == <<workIqCircuitBreaker, now>>
harnessVars == <<inflight, rejected, succeeded, failed, consecFail, halfOpens>>
retryVars == <<opts, attempt, lastError, rpc, log, lastThrown, outcome>>
delayVars == <<delayArgs, delayMs>>
auxVars == <<sessions, stream, dateRange, extraction, requests, shadow>>
pipelineVars == <<run, stage, client, params, fetch, dayResults, served, failedUnits, rawEmails,
                  batch,
                  batchResults, allNewsItems, group, mergedItems, completeEvent>>
vars == <<workIqCircuitBreaker, now, inflight, rejected, succeeded, failed, consecFail,
          halfOpens, opts, attempt, lastError, rpc, log, lastThrown, outcome,
          delayArgs, delayMs, run, stage, client, params, fetch, dayResults, served,
          failedUnits,
          rawEmails, batch, batchResults, allNewsItems, group, mergedItems, completeEvent,
          sessions, stream, dateRange, extraction, requests, shadow>>

(***************************************************************************)
(* CircuitBreaker (src/utils/retry.ts)                                     *)
(***************************************************************************)

\* private state: CircuitBreakerState = { failures: 0, lastFailure: 0, isOpen: false }
InitialState == [failures |-> 0, lastFailure |-> 0, isOpen |-> FALSE]

\* A breaker just constructed; onOpen and onClose count the calls of the callbacks.
NewCircuitBreaker == [state |-> InitialState, onOpen |-> 0, onClose |-> 0]

\* private reset(): the initial state again; onClose fires if the breaker was open.
reset(b) ==
    [b EXCEPT !.state = InitialState,
              !.onClose = IF b.state.isOpen THEN @ + 1 ELSE @]

\* isOpen() with the cooldown comparison inverted (< for >=).
isOpenCooldownInverted(b, t) ==
    IF ~b.state.isOpen
    THEN [open |-> FALSE, breaker |-> b]
    ELSE IF t - b.state.lastFailure < resetTimeoutMs
         THEN [open |-> FALSE, breaker |-> reset(b)]
         ELSE [open |-> TRUE, breaker |-> b]

\* isOpen() without the cooldown check: once open, always open.
isOpenNeverCools(b, t) ==
    [open |-> b.state.isOpen, breaker |-> b]

\* private isOpen(): the answer and the breaker after it (the cooldown check resets).
isOpen(b, t) ==
    IF ~b.state.isOpen
    THEN [open |-> FALSE, breaker |-> b]
    ELSE IF t - b.state.lastFailure >= resetTimeoutMs
         THEN [open |-> FALSE, breaker |-> reset(b)]
         ELSE [open |-> TRUE, breaker |-> b]

\* onSuccess() that leaves the failure count alone.
onSuccessKeepsCount(b) == b

\* private onSuccess()
onSuccess(b) ==
    IF b.state.failures > 0 THEN reset(b) ELSE b

\* onFailure() that opens one failure early.
onFailureOpensEarly(b, t) ==
    LET counted == [b EXCEPT !.state.failures = @ + 1, !.state.lastFailure = t]
    IN  IF counted.state.failures >= failureThreshold - 1
        THEN [counted EXCEPT !.state.isOpen = TRUE, !.onOpen = @ + 1]
        ELSE counted

\* private onFailure()
onFailure(b, t) ==
    LET counted == [b EXCEPT !.state.failures = @ + 1, !.state.lastFailure = t]
    IN  IF counted.state.failures >= failureThreshold
        THEN [counted EXCEPT !.state.isOpen = TRUE, !.onOpen = @ + 1]
        ELSE counted

(***************************************************************************)
(* withRetry and calculateDelay (src/utils/retry.ts)                       *)
(***************************************************************************)

\* const DEFAULT_OPTIONS: RetryOptions
DEFAULT_OPTIONS ==
    [maxRetries |-> 3, baseDelayMs |-> 1000, maxDelayMs |-> 30000, backoffMultiplier |-> 2]

\* Delays are kept as integers: a delay d stands for d / DelayScale milliseconds
\* (the jitter is random * 0.3 * exponentialDelay, random = k / RandomDenominator).
DelayScale == 10 * RandomDenominator

RECURSIVE pow(_, _)
\* Math.pow(base, exponent) for a natural exponent
pow(base, exponent) == IF exponent = 0 THEN 1 ELSE base * pow(base, exponent - 1)

\* Math.min
min(a, b) == IF a <= b THEN a ELSE b

\* calculateDelay without the cap at maxDelayMs.
calculateDelayUncapped(a, options, k) ==
    LET exponentialDelay == options.baseDelayMs * pow(options.backoffMultiplier, a)
        jitter == k * 3 * exponentialDelay
    IN  exponentialDelay * DelayScale + jitter

\* calculateDelay(attempt, options), with Math.random() = k / RandomDenominator;
\* the result is in units of 1 / DelayScale ms.
calculateDelay(a, options, k) ==
    LET exponentialDelay == options.baseDelayMs * pow(options.backoffMultiplier, a)
        jitter == k * 3 * exponentialDelay
    IN  min(exponentialDelay * DelayScale + jitter, options.maxDelayMs * DelayScale)

\* The values Math.random() takes in the model.
RandomDraws == {0, RandomDenominator \div 2, RandomDenominator - 1}

\* The values an operation throws: Error objects and instances of a subclass (each
\* with its identity, ref), and values that are no Error (a string, a number).
ThrownValues ==
    { [kind |-> "Error", ref |-> 1, val |-> "timeout"],
      [kind |-> "Error", ref |-> 2, val |-> "timeout"],
      [kind |-> "TypeError", ref |-> 3, val |-> "not a function"],
      [kind |-> "string", ref |-> 0, val |-> "boom"],
      [kind |-> "number", ref |-> 0, val |-> 42] }

\* error instanceof Error
instanceofError(error) == error.kind \in {"Error", "TypeError"}

\* String(error) of a value that is no Error
String(error) ==
    CASE error.kind = "string" -> error.val
      [] error.kind = "number" -> ToString(error.val)
      [] error.kind = "undefined" -> "undefined"
      [] OTHER -> error.kind \o ": " \o error.val

\* The identity of the Error object made by the k-th `new Error` of a call.
FreshRef(k) == 100 + k

\* The catch clause with every thrown value wrapped in a new Error.
normalizeAlwaysWraps(error, k) ==
    [kind |-> "Error", ref |-> FreshRef(k), val |-> String(error)]

\* error instanceof Error ? error : new Error(String(error))
normalize(error, k) ==
    IF instanceofError(error)
    THEN error
    ELSE [kind |-> "Error", ref |-> FreshRef(k), val |-> String(error)]

\* The retry test with <= for <.
attemptsRemainOffByOne(a, options) == a <= options.maxRetries

\* if (attempt < opts.maxRetries)
attemptsRemain(a, options) == a < options.maxRetries

\* for (...; attempt <= opts.maxRetries; ...)
loopContinues(a, options) == a <= options.maxRetries

undefined == [kind |-> "undefined", ref |-> 0, val |-> 0]

FnCalled == [ev |-> "fn"]
OnRetryCalled(n, error, d) == [ev |-> "onRetry", attempt |-> n, error |-> error, delayMs |-> d]
SleepCalled(d) == [ev |-> "sleep", ms |-> d]

\* The state of the harness of SpecCB in the other specifications.
HarnessUnused ==
    /\ inflight = 0 /\ rejected = 0 /\ succeeded = 0 /\ failed = 0
    /\ consecFail = 0 /\ halfOpens = 0

\* logger.error has recorded no failed date, batch or group.
NoneFailed == [dates |-> {}, batches |-> {}, groups |-> {}]

\* No complete event sent.
NoEvent ==
    [sent |-> FALSE, news |-> <<>>,
     stats |-> [emailsFetched |-> 0, storiesExtracted |-> 0, afterMerge |-> 0, displayed |-> 0]]

\* The state of the server before the first request: no client, no run.
PipelineIdle ==
    /\ run = 0
    /\ stage = "idle"
    /\ client = "null"
    /\ params = [days |-> 0, maxNews |-> 0]
    /\ fetch = <<>>
    /\ dayResults = <<>>
    /\ served = <<>>
    /\ failedUnits = NoneFailed
    /\ rawEmails = <<>>
    /\ batch = <<>>
    /\ batchResults = <<>>
    /\ allNewsItems = <<>>
    /\ group = <<>>
    /\ mergedItems = <<>>
    /\ completeEvent = NoEvent

\* The state of the retry variables in the specifications that make no withRetry call.
RetryUnused ==
    /\ opts = DEFAULT_OPTIONS
    /\ attempt = 0
    /\ lastError = undefined
    /\ rpc = "unused"
    /\ log = <<>>
    /\ lastThrown = undefined
    /\ outcome = undefined

\* No stage has made a QueryService call.
SessionsUnused ==
    sessions = [kind |-> "none", units |-> <<>>, settled |-> FALSE, rejected |-> FALSE]

\* The state of the variables of the specifications of single parts of the
\* handler in the specifications that do not use them.
\* No request has opened an event stream.
StreamUnused == stream = [pc |-> "none"]

\* getDateRange has not been called.
DateRangeUnused == dateRange = [days |-> 0]

\* No response has been given to the extraction helpers.
ExtractionUnused == extraction = [mode |-> "none"]

\* No request has called getClient().
RequestsUnused == requests = [client |-> "none"]

\* No second event stream is followed.
ShadowUnused == shadow = [pc |-> "none"]

AuxUnused ==
    /\ SessionsUnused /\ StreamUnused /\ DateRangeUnused /\ ExtractionUnused
    /\ RequestsUnused /\ ShadowUnused

\* The state of the delay variables in the specifications that do not use them.
DelayUnused ==
    /\ delayArgs = [attempt |-> 0, options |-> DEFAULT_OPTIONS, random |-> 0]
    /\ delayMs = -1

\* withRetry(fn, options) up to its first await: the options merged over the
\* defaults, attempt = 0, the loop test, the first call of fn.
InitRetry ==
    /\ \E n \in 0..MaxRetriesBound : opts = [DEFAULT_OPTIONS EXCEPT !.maxRetries = n]
    /\ attempt = 0
    /\ lastError = undefined
    /\ rpc = "call"
    /\ log = <<FnCalled>>
    /\ lastThrown = undefined
    /\ outcome = undefined
    /\ DelayUnused
    /\ AuxUnused
    /\ workIqCircuitBreaker = NewCircuitBreaker
    /\ now = StartTime
    /\ HarnessUnused
    /\ PipelineIdle

\* return await fn(): fn resolved.
FnResolves ==
    /\ rpc = "call"
    /\ rpc' = "resolved"
    /\ outcome' = [kind |-> "value", ref |-> 0, val |-> "result"]
    /\ UNCHANGED <<opts, attempt, lastError, log, lastThrown>>
    /\ UNCHANGED <<cbVars, harnessVars, delayVars, pipelineVars, auxVars>>

\* catch (error): fn threw. With attempts left: calculateDelay, onRetry, sleep.
\* Without: attempt++, the loop ends, throw lastError.
FnRejects ==
    /\ rpc = "call"
    /\ \E error \in ThrownValues, k \in RandomDraws :
         LET caught == normalize(error, Len(log))
             d == calculateDelay(attempt, opts, k)
         IN  /\ lastThrown' = error
             /\ lastError' = caught
             /\ IF attemptsRemain(attempt, opts)
                THEN /\ log' = log \o <<OnRetryCalled(attempt + 1, caught, d), SleepCalled(d)>>
                     /\ rpc' = "sleep"
                     /\ UNCHANGED <<attempt, outcome>>
                ELSE /\ attempt' = attempt + 1
                     /\ IF loopContinues(attempt + 1, opts)
                        THEN /\ log' = Append(log, FnCalled)
                             /\ rpc' = "call"
                             /\ UNCHANGED outcome
                        ELSE /\ rpc' = "rejected"
                             /\ outcome' = caught
                             /\ UNCHANGED log
    /\ UNCHANGED opts
    /\ UNCHANGED <<cbVars, harnessVars, delayVars, pipelineVars, auxVars>>

\* await sleep(delayMs) returned: attempt++, the loop test, the next call of fn.
SleepElapses ==
    /\ rpc = "sleep"
    /\ attempt' = attempt + 1
    /\ IF loopContinues(attempt + 1, opts)
       THEN /\ log' = Append(log, FnCalled)
            /\ rpc' = "call"
            /\ UNCHANGED outcome
       ELSE /\ rpc' = "rejected"
            /\ outcome' = lastError
            /\ UNCHANGED log
    /\ UNCHANGED <<opts, lastError, lastThrown>>
    /\ UNCHANGED <<cbVars, harnessVars, delayVars, pipelineVars, auxVars>>

NextRetry == FnResolves \/ FnRejects \/ SleepElapses

SpecRetry == InitRetry /\ [][NextRetry]_vars

(***************************************************************************)
(* SpecDelay: calculateDelay applied to bounded inputs                     *)
(***************************************************************************)

\* The options calculateDelay is applied to: the defaults, and around them.
DelayOptions ==
    { [DEFAULT_OPTIONS EXCEPT !.baseDelayMs = b, !.backoffMultiplier = m, !.maxDelayMs = x] :
        b \in {0, 1, DEFAULT_OPTIONS.baseDelayMs},
        m \in {1, DEFAULT_OPTIONS.backoffMultiplier, 3},
        x \in {0, DEFAULT_OPTIONS.baseDelayMs, DEFAULT_OPTIONS.maxDelayMs} }

InitDelay ==
    /\ \E o \in DelayOptions : delayArgs = [attempt |-> 0, options |-> o, random |-> 0]
    /\ delayMs = -1
    /\ AuxUnused
    /\ RetryUnused
    /\ workIqCircuitBreaker = NewCircuitBreaker
    /\ now = StartTime
    /\ HarnessUnused
    /\ PipelineIdle

\* const delayMs = calculateDelay(attempt, opts)
CalculateDelayCall ==
    /\ \E a \in 0..MaxAttempt, k \in RandomDraws :
         /\ delayArgs' = [delayArgs EXCEPT !.attempt = a, !.random = k]
         /\ delayMs' = calculateDelay(a, delayArgs.options, k)
    /\ UNCHANGED <<cbVars, harnessVars, retryVars, pipelineVars, auxVars>>

NextDelay == CalculateDelayCall

SpecDelay == InitDelay /\ [][NextDelay]_vars

(***************************************************************************)
(* SpecCB: execute calls on one breaker, overlapping in any way. The       *)
(* operations are interchangeable, so the harness counts them.             *)
(***************************************************************************)

\* resetTimeoutMs has elapsed since the last recorded failure.
CooledDown(b, t) == t - b.state.lastFailure >= resetTimeoutMs

Started == rejected + inflight + succeeded + failed

InitCB ==
    /\ workIqCircuitBreaker = NewCircuitBreaker
    /\ now = StartTime
    /\ inflight = 0
    /\ rejected = 0
    /\ succeeded = 0
    /\ failed = 0
    /\ consecFail = 0
    /\ halfOpens = 0
    /\ RetryUnused
    /\ DelayUnused
    /\ AuxUnused
    /\ PipelineIdle

\* execute(fn) up to its await: the isOpen() check, then the throw or the call of fn.
ExecuteCall ==
    /\ Started < MaxCalls
    /\ LET r == isOpen(workIqCircuitBreaker, now)
       IN  /\ workIqCircuitBreaker' = r.breaker
           /\ IF r.open
              THEN rejected' = rejected + 1 /\ inflight' = inflight
              ELSE inflight' = inflight + 1 /\ rejected' = rejected
    /\ halfOpens' = IF workIqCircuitBreaker.state.isOpen /\ CooledDown(workIqCircuitBreaker, now)
                    THEN halfOpens + 1 ELSE halfOpens
    /\ UNCHANGED <<now, succeeded, failed, consecFail>>
    /\ UNCHANGED <<retryVars, delayVars, pipelineVars, auxVars>>

\* execute(fn) after its await, fn resolved: onSuccess(), return result.
OperationResolves ==
    /\ inflight > 0
    /\ inflight' = inflight - 1
    /\ succeeded' = succeeded + 1
    /\ consecFail' = 0
    /\ workIqCircuitBreaker' = onSuccess(workIqCircuitBreaker)
    /\ UNCHANGED <<now, rejected, failed, halfOpens>>
    /\ UNCHANGED <<retryVars, delayVars, pipelineVars, auxVars>>

\* execute(fn) after its await, fn rejected: onFailure(), throw error.
OperationRejects ==
    /\ inflight > 0
    /\ inflight' = inflight - 1
    /\ failed' = failed + 1
    /\ consecFail' = consecFail + 1
    /\ workIqCircuitBreaker' = onFailure(workIqCircuitBreaker, now)
    /\ UNCHANGED <<now, rejected, succeeded, halfOpens>>
    /\ UNCHANGED <<retryVars, delayVars, pipelineVars, auxVars>>

\* Time passes.
TickCB ==
    /\ now < StartTime + MaxTicks * TickMs
    /\ now' = now + TickMs
    /\ UNCHANGED <<workIqCircuitBreaker, harnessVars>>
    /\ UNCHANGED <<retryVars, delayVars, pipelineVars, auxVars>>

NextCB == ExecuteCall \/ OperationResolves \/ OperationRejects \/ TickCB

SpecCB == InitCB /\ [][NextCB]_vars

(***************************************************************************)
(* The pipeline of GET /api/news-stream (src/news-app/server.ts)           *)
(*                                                                         *)
(* A QueryService call (createSession, sendAndWait, destroy, and the text  *)
(* the session's events add up to) is one step of its unit: it throws, or  *)
(* it leaves a response text, which is told by what the parsing makes of   *)
(* it.                                                                     *)
(***************************************************************************)

\* const batchSize = 5
batchSize == 5

\* The options fetchDay gives withRetry, merged over the defaults.
fetchDayOptions == [DEFAULT_OPTIONS EXCEPT !.maxRetries = 2, !.baseDelayMs = 1000]

\* What a QueryService call of fetchDay comes to: an exception (of createSession,
\* sendAndWait or destroy), a text with no [...] span, a text whose span is not
\* JSON, or a text whose span is an array of n elements.
FetchResponses ==
    { [kind |-> k, n |-> 0] : k \in {"throws", "no match", "invalid"} }
        \cup { [kind |-> "array", n |-> n] : n \in {0, MaxEmailsPerDay} }

\* One element of dayEmails after the map: the id is `${dateStr}-${idx}`.
RawEmail(dateStr, idx) == [id |-> <<dateStr, idx>>, date |-> dateStr]

\* The async function fetchDay gives withRetry, from the call's response on: it
\* throws (the call threw, or JSON.parse did) or returns the emails.
fetchAttempt(dateStr, response) ==
    CASE response.kind \in {"throws", "invalid"} -> [threw |-> TRUE, value |-> <<>>]
      [] response.kind = "no match" -> [threw |-> FALSE, value |-> <<>>]
      [] response.kind = "array" ->
            [threw |-> FALSE,
             value |-> [i \in 1..response.n |-> RawEmail(dateStr, i - 1)]]

\* The per-unit try/catch taken away: the unit's exception reaches Promise.all.
catchUnitRethrows(settled, fallback) == settled

\* try { return await unit } catch (err) { ...; return fallback }
catchUnit(settled, fallback) ==
    IF settled.threw THEN [threw |-> FALSE, value |-> fallback] ELSE settled

RECURSIVE flat(_)
\* Array.prototype.flat() of an array of arrays
flat(arrays) ==
    IF arrays = <<>> THEN <<>> ELSE Head(arrays) \o flat(Tail(arrays))

\* The slices one too long: rawEmails.slice(i, i + batchSize + 1).
BatchesOverlapping(emails) ==
    [b \in 1..((Len(emails) + batchSize - 1) \div batchSize) |->
        SubSeq(emails, (b - 1) * batchSize + 1, min(b * batchSize + 1, Len(emails)))]

\* for (let i = 0; i < rawEmails.length; i += batchSize)
\*     batches.push(rawEmails.slice(i, i + batchSize))
Batches(emails) ==
    [b \in 1..((Len(emails) + batchSize - 1) \div batchSize) |->
        SubSeq(emails, (b - 1) * batchSize + 1, min(b * batchSize, Len(emails)))]

\* The NewsItems the QueryService hands out. A subject is given by its
\* whitespace-separated words; a date is the string of the answer, "" when the
\* field is empty or missing.
NewsItem(id, subject, date, source, emailUrl) ==
    [id |-> id, subject |-> subject, date |-> date, summary |-> "summary " \o id,
     source |-> source, emailUrl |-> emailUrl]

MarketWSJ ==
    NewsItem("1-0-0", <<"Breaking", "financial", "market", "analysis", "today">>, "2026-01-02",
             "WSJ", "https://outlook/1")
MarketNYT ==
    NewsItem("1-1-0", <<"Latest", "Financial", "Market", "updates", "report">>, "2026-01-03",
             "NYT", "")
TeslaWSJ ==
    NewsItem("2-0-0", <<"Tesla", "announces", "earnings">>, "2026-01-01", "WSJ",
             "https://outlook/3")
MarketTeslaWSJ ==
    NewsItem("3-0-0", <<"Financial", "market", "Tesla", "earnings">>, "", "WSJ",
             "https://outlook/4")
\* A story the QueryService gave the id of another story (MarketWSJ).
TeslaTeslaNYT ==
    NewsItem("1-0-0", <<"Tesla", "rally:", "Tesla", "soars">>, "yesterday", "NYT",
             "https://outlook/5")

\* The element JSON.parse makes of `null` in the array of stories.
null == [null |-> TRUE]

\* What a QueryService call of processBatch comes to: as for fetchDay, the array
\* being one of stories, or of anything else JSON can hold.
BatchResponses ==
    { [kind |-> k, items |-> <<>>] : k \in {"throws", "no match", "invalid"} }
        \cup { [kind |-> "array", items |-> i] :
                 i \in { <<TeslaWSJ>>, <<MarketWSJ, TeslaWSJ, MarketNYT>>, <<null>> } }

\* processBatch from the call's response on: the call's exception leaves it; a
\* parse error is caught inside.
processBatch(response) ==
    CASE response.kind = "throws" -> [threw |-> TRUE, value |-> <<>>]
      [] response.kind \in {"no match", "invalid"} -> [threw |-> FALSE, value |-> <<>>]
      [] response.kind = "array" -> [threw |-> FALSE, value |-> response.items]

\* String.prototype.toLowerCase on the words of the stories
toLowerCase(w) ==
    CASE w = "Breaking" -> "breaking"
      [] w = "Latest" -> "latest"
      [] w = "Financial" -> "financial"
      [] w = "Market" -> "market"
      [] w = "Tesla" -> "tesla"
      [] OTHER -> w

\* (item.subject || "").toLowerCase().split(/\s+/).filter((w) => w.length > 4)
words(item) ==
    SelectSeq([i \in 1..Len(item.subject) |-> toLowerCase(item.subject[i])],
              LAMBDA w : Len(w) > 4)

Range(f) == { f[i] : i \in DOMAIN f }

\* words1.filter((w) => words2.includes(w))
commonWords(words1, words2) == SelectSeq(words1, LAMBDA w : w \in Range(words2))

RECURSIVE ascending(_)
\* The members of a set of indices in increasing order.
ascending(S) ==
    IF S = {} THEN <<>>
    ELSE LET m == CHOOSE x \in S : \A y \in S : x <= y
         IN  <<m>> \o ascending(S \ {m})

RECURSIVE groupsFromKeepsJoined(_, _, _, _)
\* used.add(j) lost: an item that joined a group is an anchor again later.
groupsFromKeepsJoined(items, i, used, groups) ==
    IF i > Len(items) THEN groups
    ELSE IF i \in used THEN groupsFromKeepsJoined(items, i + 1, used, groups)
    ELSE LET joined == { j \in (i + 1)..Len(items) :
                           /\ j \notin used
                           /\ Len(commonWords(words(items[i]), words(items[j]))) >= 2 }
         IN  groupsFromKeepsJoined(items, i + 1, used \cup {i},
                                   Append(groups, <<i>> \o ascending(joined)))

RECURSIVE groupsFromChained(_, _, _, _)
\* An item joins when it meets the threshold against the anchor or against any
\* item between the anchor and itself.
groupsFromChained(items, i, used, groups) ==
    IF i > Len(items) THEN groups
    ELSE IF i \in used THEN groupsFromChained(items, i + 1, used, groups)
    ELSE LET joined == { j \in (i + 1)..Len(items) :
                           /\ j \notin used
                           /\ \E k \in i..(j - 1) :
                                 /\ k \notin used
                                 /\ Len(commonWords(words(items[k]), words(items[j]))) >= 2 }
         IN  groupsFromChained(items, i + 1, used \cup joined \cup {i},
                               Append(groups, <<i>> \o ascending(joined)))

RECURSIVE groupsFrom(_, _, _, _)
\* The grouping loop of mergeDuplicates from index i on: groups of indices.
groupsFrom(items, i, used, groups) ==
    IF i > Len(items) THEN groups
    ELSE IF i \in used THEN groupsFrom(items, i + 1, used, groups)
    ELSE LET joined == { j \in (i + 1)..Len(items) :
                           /\ j \notin used
                           /\ Len(commonWords(words(items[i]), words(items[j]))) >= 2 }
         IN  groupsFrom(items, i + 1, used \cup joined \cup {i},
                        Append(groups, <<i>> \o ascending(joined)))

\* items[i].subject of the grouping loop throws a TypeError: every item is read,
\* as an anchor or against one, and null has no properties.
groupingThrows(items) == \E i \in DOMAIN items : items[i] = null

\* const groups: NewsItem[][] of mergeDuplicates
Groups(items) ==
    LET byIndex == groupsFrom(items, 1, {}, <<>>)
    IN  [g \in 1..Len(byIndex) |-> [k \in 1..Len(byIndex[g]) |-> items[byIndex[g][k]]]]

\* The filter lost: every source is kept.
distinctKeepsAll(arr) == arr

RECURSIVE distinct(_)
\* arr.filter((s, i, arr) => arr.indexOf(s) === i)
distinct(arr) ==
    IF arr = <<>> THEN <<>>
    ELSE LET front == distinct(SubSeq(arr, 1, Len(arr) - 1))
             last == arr[Len(arr)]
         IN  IF last \in Range(front) THEN front ELSE Append(front, last)

\* The single item sent to the QueryService like a group of several.
isSingleNever(items) == FALSE

\* if (group.length === 1): no merge needed
isSingle(items) == Len(items) = 1

\* The record for a single item, and the fallback of the catch around processGroup.
firstItemOnly(items) ==
    [id |-> items[1].id, subject |-> items[1].subject, date |-> items[1].date,
     summary |-> items[1].summary, sources |-> <<items[1].source>>,
     emailUrls |-> <<items[1].emailUrl>>, originalItems |-> items]

\* The record processGroup builds for several items from a subject and a summary.
mergedRecord(items, idx, subject, summary) ==
    [id |-> "merged-" \o ToString(idx), subject |-> subject, date |-> items[1].date,
     summary |-> summary,
     sources |-> distinct([k \in 1..Len(items) |-> items[k].source]),
     emailUrls |-> SelectSeq([k \in 1..Len(items) |-> items[k].emailUrl],
                             LAMBDA u : u # ""),
     originalItems |-> items]

RECURSIVE join(_)
\* group.map((g) => g.summary).join(" ")
join(items) ==
    IF Len(items) = 1 THEN items[1].summary
    ELSE items[1].summary \o " " \o join(Tail(items))

\* What a QueryService call of processGroup comes to; an object may lack its
\* subject or its summary ("" stands for a missing or empty field).
GroupResponses ==
    { [kind |-> k, subject |-> <<>>, summary |-> ""] : k \in {"throws", "no match", "invalid"} }
        \cup { [kind |-> "object", subject |-> <<"Markets", "rally">>, summary |-> "synthesis"],
               [kind |-> "object", subject |-> <<>>, summary |-> ""] }

\* processGroup for several items, from the call's response on (idx from 0).
processGroup(items, idx, response) ==
    CASE response.kind = "throws" -> [threw |-> TRUE, value |-> firstItemOnly(items)]
      [] response.kind \in {"no match", "invalid"} ->
            [threw |-> FALSE,
             value |-> mergedRecord(items, idx, items[1].subject, items[1].summary)]
      [] response.kind = "object" ->
            [threw |-> FALSE,
             value |-> mergedRecord(items, idx,
                          IF response.subject # <<>> THEN response.subject
                                                     ELSE items[1].subject,
                          IF response.summary # "" THEN response.summary
                                                   ELSE join(items))]

\* Number.NaN, and a time value in days since the epoch.
NaN == [nan |-> TRUE, t |-> 0]
Time(t) == [nan |-> FALSE, t |-> t]

\* new Date(value).getTime() on the date strings of the stories: a string that
\* is no date makes an Invalid Date, whose time value is NaN.
DateGetTime(value) ==
    CASE value = "2026-01-01" -> Time(20454)
      [] value = "2026-01-02" -> Time(20455)
      [] value = "2026-01-03" -> Time(20456)
      [] OTHER -> NaN

\* new Date(item.date || 0).getTime()
getTime(item) == IF item.date = "" THEN Time(0) ELSE DateGetTime(item.date)

\* (a, b) => getTime(b) - getTime(a), as Array.prototype.sort reads it: NaN
\* counts as +0.
compareFn(a, b) ==
    IF getTime(a).nan \/ getTime(b).nan THEN 0 ELSE getTime(b).t - getTime(a).t

\* compareFn is a consistent comparator for the elements of news.
isConsistent(news) ==
    \A a, b, c \in Range(news) :
        (compareFn(a, b) <= 0 /\ compareFn(b, c) <= 0) => compareFn(a, c) <= 0

RECURSIVE sortByDate(_)
\* The stable sort by compareFn.
sortByDate(news) ==
    IF news = <<>> THEN <<>>
    ELSE LET rest == sortByDate(SubSeq(news, 1, Len(news) - 1))
             last == news[Len(news)]
             before == SelectSeq(rest, LAMBDA m : compareFn(m, last) <= 0)
             after == SelectSeq(rest, LAMBDA m : compareFn(m, last) > 0)
         IN  before \o <<last>> \o after

\* The orders of the elements of news.
Orders(news) ==
    { [i \in DOMAIN news |-> news[f[i]]] :
        f \in { g \in [DOMAIN news -> DOMAIN news] :
                  \A i, j \in DOMAIN news : g[i] = g[j] => i = j } }

\* mergedNews.sort(compareFn): the stable sort, and with a comparator that is
\* not consistent an order the implementation defines.
sortOutcomes(news) ==
    IF isConsistent(news) THEN {sortByDate(news)} ELSE Orders(news)

\* The cut lost: every record is kept.
sliceKeepsAll(news, maxNews) == news

\* .slice(0, maxNews), maxNews >= 0
slice(news, maxNews) == SubSeq(news, 1, min(maxNews, Len(news)))

\* A unit that has not settled.
Pending == [threw |-> FALSE, value |-> <<>>]

\* Only a date whose fetch returned counts as settled.
DaySettledOnlyOk(d) == fetch[d].pc = "ok"

\* A date in its backoff sleep counts as settled.
DaySettledOrSleeping(d) == fetch[d].pc \in {"ok", "failed", "rejected", "sleeping"}

\* A date's fetchDay call has settled.
DaySettled(d) == fetch[d].pc \in {"ok", "failed", "rejected"}

RECURSIVE admit(_, _, _)
\* The isOpen() checks of n execute calls made in a row at time t: the breaker
\* after them and each call's answer.
admit(b, t, n) ==
    IF n = 0 THEN [breaker |-> b, open |-> <<>>]
    ELSE LET before == admit(b, t, n - 1)
             r == isOpen(before.breaker, t)
         IN  [breaker |-> r.breaker, open |-> Append(before.open, r.open)]

Init ==
    /\ workIqCircuitBreaker = NewCircuitBreaker
    /\ now = StartTime
    /\ HarnessUnused
    /\ RetryUnused
    /\ DelayUnused
    /\ AuxUnused
    /\ PipelineIdle

\* A request arrives (the previous run has ended): the handler up to its await of
\* getClient(), which constructs the client if there is none and awaits its start.
StartRun ==
    /\ stage \in {"idle", "complete", "failed"}
    /\ run < MaxRuns
    /\ run' = run + 1
    /\ \E d \in 1..MaxDays, m \in {1, 50} : params' = [days |-> d, maxNews |-> m]
    /\ client' = IF client = "null" THEN "starting" ELSE client
    /\ stage' = "connecting"
    /\ fetch' = <<>> /\ dayResults' = <<>> /\ served' = <<>> /\ rawEmails' = <<>>
    /\ failedUnits' = NoneFailed
    /\ batch' = <<>> /\ batchResults' = <<>> /\ allNewsItems' = <<>>
    /\ group' = <<>> /\ mergedItems' = <<>>
    /\ completeEvent' = NoEvent
    /\ UNCHANGED <<cbVars, harnessVars, retryVars, delayVars, auxVars>>

\* client.start() threw: getClient() rejects, the handler's catch sends the error
\* event. `client` keeps the object that never started.
ClientStartFails ==
    /\ stage = "connecting"
    /\ client = "starting"
    /\ client' = "broken"
    /\ stage' = "failed"
    /\ UNCHANGED <<run, params, fetch, dayResults, served, failedUnits, rawEmails, batch,
                   batchResults, allNewsItems, group, mergedItems, completeEvent>>
    /\ UNCHANGED <<cbVars, harnessVars, retryVars, delayVars, auxVars>>

\* getClient() resolved: getDateRange, then datesToFetch.map starts every
\* fetchDay in a row, each up to its first await: execute's isOpen() check, and
\* for an admitted date withRetry's first call of the QueryService.
ClientReady ==
    /\ stage = "connecting"
    /\ client' = IF client = "starting" THEN "started" ELSE client
    /\ stage' = "fetching"
    /\ LET a == admit(workIqCircuitBreaker, now, params.days)
       IN  /\ workIqCircuitBreaker' = a.breaker
           /\ fetch' = [d \in 1..params.days |->
                          IF a.open[d] THEN [pc |-> "rejected", attempt |-> 0]
                                       ELSE [pc |-> "calling", attempt |-> 0]]
           /\ dayResults' = [d \in 1..params.days |->
                               IF a.open[d]
                               THEN catchUnit([threw |-> TRUE, value |-> <<>>], <<>>)
                               ELSE Pending]
    /\ served' = [d \in 1..params.days |-> [kind |-> "none", n |-> 0]]
    /\ failedUnits' = [failedUnits EXCEPT !.dates =
                          { d \in 1..params.days :
                              admit(workIqCircuitBreaker, now, params.days).open[d] }]
    /\ UNCHANGED <<run, params, rawEmails, batch, batchResults, allNewsItems, group,
                   mergedItems, completeEvent>>
    /\ UNCHANGED <<now, harnessVars, retryVars, delayVars, auxVars>>

\* A date's QueryService call is over. The attempt returned: withRetry returns,
\* execute runs onSuccess(). It threw with attempts left: onRetry, sleep. It threw
\* with none left: withRetry throws, execute runs onFailure() and throws, the
\* catch around fetchDay returns [].
FetchSettles(d) ==
    /\ stage = "fetching"
    /\ fetch[d].pc = "calling"
    /\ \E response \in FetchResponses :
         LET r == fetchAttempt(d, response)
         IN  IF ~r.threw
             THEN /\ workIqCircuitBreaker' = onSuccess(workIqCircuitBreaker)
                  /\ fetch' = [fetch EXCEPT ![d].pc = "ok"]
                  /\ dayResults' = [dayResults EXCEPT ![d] = catchUnit(r, <<>>)]
                  /\ served' = [served EXCEPT ![d] = response]
                  /\ UNCHANGED failedUnits
             ELSE IF attemptsRemain(fetch[d].attempt, fetchDayOptions)
             THEN /\ fetch' = [fetch EXCEPT ![d].pc = "sleeping"]
                  /\ served' = [served EXCEPT ![d] = response]
                  /\ UNCHANGED <<workIqCircuitBreaker, dayResults, failedUnits>>
             ELSE /\ workIqCircuitBreaker' = onFailure(workIqCircuitBreaker, now)
                  /\ fetch' = [fetch EXCEPT ![d].pc = "failed"]
                  /\ dayResults' = [dayResults EXCEPT ![d] = catchUnit(r, <<>>)]
                  /\ failedUnits' = [failedUnits EXCEPT !.dates = @ \cup {d}]
                  /\ served' = [served EXCEPT ![d] = response]
    /\ UNCHANGED <<run, stage, client, params, rawEmails, batch, batchResults, allNewsItems,
                   group, mergedItems, completeEvent>>
    /\ UNCHANGED <<now, harnessVars, retryVars, delayVars, auxVars>>

\* A date's backoff sleep is over: attempt++, the next call of the QueryService.
FetchSleepElapses(d) ==
    /\ stage = "fetching"
    /\ fetch[d].pc = "sleeping"
    /\ fetch' = [fetch EXCEPT ![d] = [pc |-> "calling", attempt |-> fetch[d].attempt + 1]]
    /\ served' = [served EXCEPT ![d] = [kind |-> "none", n |-> 0]]
    /\ UNCHANGED <<run, stage, client, params, dayResults, failedUnits, rawEmails,
                   batch, batchResults, allNewsItems, group, mergedItems, completeEvent>>
    /\ UNCHANGED <<cbVars, harnessVars, retryVars, delayVars, auxVars>>

\* await Promise.all(dayResults) is over: with a rejected entry the handler's
\* catch ends the run; otherwise rawEmails, the batches, and batches.map starts
\* every processBatch up to its first await.
FetchFanIn ==
    /\ stage = "fetching"
    /\ \/ \A d \in DOMAIN fetch : DaySettled(d)
       \/ \E d \in DOMAIN fetch : DaySettled(d) /\ dayResults[d].threw
    /\ IF \E d \in DOMAIN fetch : dayResults[d].threw
       THEN /\ stage' = "failed"
            /\ UNCHANGED <<rawEmails, batch, batchResults>>
       ELSE /\ stage' = "extracting"
            /\ rawEmails' = flat([d \in DOMAIN dayResults |-> dayResults[d].value])
            /\ batch' = [b \in DOMAIN Batches(rawEmails') |->
                           [pc |-> "calling", answer |-> [kind |-> "none", items |-> <<>>]]]
            /\ batchResults' = [b \in DOMAIN Batches(rawEmails') |-> Pending]
    /\ fetch' = <<>> /\ dayResults' = <<>> /\ served' = <<>>
    /\ UNCHANGED <<run, client, params, failedUnits, allNewsItems, group, mergedItems,
                   completeEvent>>
    /\ UNCHANGED <<cbVars, harnessVars, retryVars, delayVars, auxVars>>

\* A batch's QueryService call is over: processBatch returns or throws, and the
\* catch around it returns [].
BatchSettles(b) ==
    /\ stage = "extracting"
    /\ batch[b].pc = "calling"
    /\ \E response \in BatchResponses :
         /\ batch' = [batch EXCEPT ![b] = [pc |-> "done", answer |-> response]]
         /\ batchResults' = [batchResults EXCEPT ![b] = catchUnit(processBatch(response), <<>>)]
         /\ failedUnits' = IF processBatch(response).threw
                           THEN [failedUnits EXCEPT !.batches = @ \cup {b}]
                           ELSE failedUnits
    /\ UNCHANGED <<run, stage, client, params, fetch, dayResults, served, rawEmails,
                   allNewsItems, group, mergedItems, completeEvent>>
    /\ UNCHANGED <<cbVars, harnessVars, retryVars, delayVars, auxVars>>

\* await Promise.all(batchResults) is over: allNewsItems, then mergeDuplicates up
\* to its Promise.all: the groups, and groups.map starts every processGroup. A
\* group of one item returns at once; a larger one calls the QueryService. A
\* TypeError of the grouping loop leaves mergeDuplicates and the handler's catch
\* ends the run.
ExtractFanIn ==
    /\ stage = "extracting"
    /\ \/ \A b \in DOMAIN batch : batch[b].pc = "done"
       \/ \E b \in DOMAIN batch : batch[b].pc = "done" /\ batchResults[b].threw
    /\ IF \E b \in DOMAIN batch : batchResults[b].threw
       THEN /\ stage' = "failed"
            /\ UNCHANGED <<allNewsItems, group, mergedItems>>
       ELSE /\ allNewsItems' = flat([b \in DOMAIN batchResults |-> batchResults[b].value])
            /\ IF groupingThrows(allNewsItems')
               THEN /\ stage' = "failed"
                    /\ UNCHANGED <<group, mergedItems>>
               ELSE LET groups == Groups(allNewsItems')
                    IN  /\ stage' = "merging"
                        /\ group' = [g \in DOMAIN groups |->
                                       [pc |-> IF isSingle(groups[g]) THEN "done"
                                                                      ELSE "calling",
                                        items |-> groups[g],
                                        answer |-> [kind |-> "none", subject |-> <<>>,
                                                    summary |-> ""]]]
                        /\ mergedItems' = [g \in DOMAIN groups |->
                                             IF isSingle(groups[g])
                                             THEN [threw |-> FALSE,
                                                   value |-> firstItemOnly(groups[g])]
                                             ELSE Pending]
    /\ batch' = <<>> /\ batchResults' = <<>>
    /\ UNCHANGED <<run, client, params, fetch, dayResults, served, failedUnits, rawEmails,
                   completeEvent>>
    /\ UNCHANGED <<cbVars, harnessVars, retryVars, delayVars, auxVars>>

\* A group's QueryService call is over: processGroup returns or throws, and the
\* catch around it returns the first item's record.
GroupSettles(g) ==
    /\ stage = "merging"
    /\ group[g].pc = "calling"
    /\ \E response \in GroupResponses :
         /\ group' = [group EXCEPT ![g].pc = "done", ![g].answer = response]
         /\ mergedItems' = [mergedItems EXCEPT ![g] =
                               catchUnit(processGroup(group[g].items, g - 1, response),
                                         firstItemOnly(group[g].items))]
         /\ failedUnits' = IF processGroup(group[g].items, g - 1, response).threw
                           THEN [failedUnits EXCEPT !.groups = @ \cup {g}]
                           ELSE failedUnits
    /\ UNCHANGED <<run, stage, client, params, fetch, dayResults, served, rawEmails, batch,
                   batchResults, allNewsItems, completeEvent>>
    /\ UNCHANGED <<cbVars, harnessVars, retryVars, delayVars, auxVars>>

\* await Promise.all(mergedItems) is over: mergeDuplicates returns, the handler
\* sorts, slices and sends the complete event.
MergeFanIn ==
    /\ stage = "merging"
    /\ \/ \A g \in DOMAIN group : group[g].pc = "done"
       \/ \E g \in DOMAIN group : group[g].pc = "done" /\ mergedItems[g].threw
    /\ IF \E g \in DOMAIN group : mergedItems[g].threw
       THEN /\ stage' = "failed"
            /\ UNCHANGED completeEvent
       ELSE /\ stage' = "complete"
            /\ \E mergedNews \in sortOutcomes([g \in DOMAIN mergedItems |->
                                                  mergedItems[g].value]) :
               LET sortedNews == slice(mergedNews, params.maxNews)
               IN  completeEvent' =
                       [sent |-> TRUE, news |-> sortedNews,
                        stats |-> [emailsFetched |-> Len(rawEmails),
                                   storiesExtracted |-> Len(allNewsItems),
                                   afterMerge |-> Len(mergedNews),
                                   displayed |-> Len(sortedNews)]]
    /\ UNCHANGED <<run, client, params, fetch, dayResults, served, failedUnits, rawEmails,
                   batch, batchResults, allNewsItems, group, mergedItems>>
    /\ UNCHANGED <<cbVars, harnessVars, retryVars, delayVars, auxVars>>

\* Time passes. The clock is read only by the breaker, when a date fetch starts or
\* gives up, so it moves while dates are fetched and between runs.
Tick ==
    /\ stage \in {"idle", "fetching", "complete", "failed"}
    /\ now < StartTime + MaxRunTicks * TickMs
    /\ now' = now + TickMs
    /\ UNCHANGED <<workIqCircuitBreaker, harnessVars, retryVars, delayVars, pipelineVars, auxVars>>

Next ==
    \/ StartRun
    \/ ClientStartFails
    \/ ClientReady
    \/ \E d \in DOMAIN fetch : FetchSettles(d)
    \/ \E d \in DOMAIN fetch : FetchSleepElapses(d)
    \/ FetchFanIn
    \/ \E b \in DOMAIN batch : BatchSettles(b)
    \/ ExtractFanIn
    \/ \E g \in DOMAIN group : GroupSettles(g)
    \/ MergeFanIn
    \/ Tick

Spec == Init /\ [][Next]_vars

\* The steps of the run in progress: all but the arrival of a request and the
\* clock.
RunStep ==
    \/ ClientStartFails
    \/ ClientReady
    \/ \E d \in DOMAIN fetch : FetchSettles(d)
    \/ \E d \in DOMAIN fetch : FetchSleepElapses(d)
    \/ FetchFanIn
    \/ \E b \in DOMAIN batch : BatchSettles(b)
    \/ ExtractFanIn
    \/ \E g \in DOMAIN group : GroupSettles(g)
    \/ MergeFanIn

(***************************************************************************)
(* SpecRun: one run from its await of getClient() to its terminal event,   *)
(* in a process as earlier runs can have left it, every await of the run   *)
(* settling in the end                                                     *)
(***************************************************************************)

RECURSIVE afterFailures(_)
\* The breaker after k dates in a row have given up at StartTime.
afterFailures(k) ==
    IF k = 0 THEN NewCircuitBreaker ELSE onFailure(afterFailures(k - 1), StartTime)

\* The handler at its await of getClient(), as StartRun leaves it: in the first
\* run of the process with the client just constructed and the breaker new, in
\* a later run with the client and the breaker of the runs before, which had
\* MaxDays dates each at most, at once or when resetTimeoutMs has passed.
InitRun ==
    /\ now \in {StartTime, StartTime + resetTimeoutMs}
    /\ HarnessUnused
    /\ RetryUnused
    /\ DelayUnused
    /\ AuxUnused
    /\ \E r \in {1, MaxRuns} :
          /\ run = r
          /\ IF r = 1
             THEN /\ client = "starting"
                  /\ workIqCircuitBreaker = NewCircuitBreaker
             ELSE /\ client \in {"started", "broken"}
                  /\ \E k \in 0..min(failureThreshold, MaxDays * (r - 1)) :
                        workIqCircuitBreaker = afterFailures(k)
    /\ stage = "connecting"
    /\ \E d \in 1..MaxDays, m \in {1, 50} : params = [days |-> d, maxNews |-> m]
    /\ fetch = <<>> /\ dayResults = <<>> /\ served = <<>> /\ rawEmails = <<>>
    /\ failedUnits = NoneFailed
    /\ batch = <<>> /\ batchResults = <<>> /\ allNewsItems = <<>>
    /\ group = <<>> /\ mergedItems = <<>>
    /\ completeEvent = NoEvent

NextRun == RunStep

\* Every createSession, sendAndWait and destroy call returns or throws and every
\* backoff sleep elapses: a step of the run that stays possible is taken.
SpecRun == InitRun /\ [][NextRun]_vars /\ WF_vars(RunStep)

(***************************************************************************)
(* SpecMerge: the run from `await Promise.all(batchResults)` on, with one  *)
(* batch whose answer is any array of up to MaxItems stories               *)
(***************************************************************************)

\* The stories the answer of the batch is made of.
ItemPool == {MarketWSJ, MarketNYT, TeslaWSJ, MarketTeslaWSJ, TeslaTeslaNYT}

RECURSIVE SeqsUpTo(_, _)
\* The sequences of at most n elements of S.
SeqsUpTo(S, n) ==
    IF n = 0 THEN {<<>>}
    ELSE LET shorter == SeqsUpTo(S, n - 1)
         IN  shorter \cup { Append(q, x) : q \in { r \in shorter : Len(r) = n - 1 }, x \in S }

\* The first run of the process, its one date fetched with one email, its one
\* batch answered.
InitMerge ==
    /\ workIqCircuitBreaker = NewCircuitBreaker
    /\ now = StartTime
    /\ HarnessUnused
    /\ RetryUnused
    /\ DelayUnused
    /\ AuxUnused
    /\ run = 1
    /\ stage = "extracting"
    /\ client = "started"
    /\ \E m \in {1, 50} : params = [days |-> 1, maxNews |-> m]
    /\ fetch = <<>>
    /\ dayResults = <<>>
    /\ served = <<>>
    /\ failedUnits = NoneFailed
    /\ rawEmails = <<RawEmail(1, 0)>>
    /\ \E items \in SeqsUpTo(ItemPool, MaxItems) :
         LET response == [kind |-> "array", items |-> items]
         IN  /\ batch = <<[pc |-> "done", answer |-> response]>>
             /\ batchResults = <<catchUnit(processBatch(response), <<>>)>>
    /\ allNewsItems = <<>>
    /\ group = <<>>
    /\ mergedItems = <<>>
    /\ completeEvent = NoEvent

NextMerge ==
    \/ ExtractFanIn
    \/ \E g \in DOMAIN group : GroupSettles(g)
    \/ MergeFanIn

SpecMerge == InitMerge /\ [][NextMerge]_vars

(***************************************************************************)
(* SpecSession: the QueryService calls of the units of one stage, await by *)
(* await: createSession, sendAndWait, destroy in the finally, and for a    *)
(* date the retries of withRetry, up to the Promise.all of the stage; the   *)
(* same for the stages of the second implementation of the handler, and    *)
(* for the one session of a request to a legacy endpoint, up to its        *)
(* response                                                                *)
(***************************************************************************)

\* The most units the stage of SpecSession has.
MaxUnits == 2

\* The variables SpecSession leaves alone.
mainVars == <<cbVars, harnessVars, retryVars, delayVars, pipelineVars>>

\* The functions whose calls make the units of a stage.
UnitKinds == {"fetchDay", "processBatch", "processGroup"}

\* The same functions in the second implementation of the handler.
SecondKinds == {"fetchDay (second)", "processBatch (second)", "processGroup (second)"}

\* The handlers of the legacy endpoints: one session for a request.
LegacyKinds == {"GET /api/news", "POST /api/summarize-topic"}

\* A unit at its call of createSession.
NewUnit == [pc |-> "createSession", attempt |-> 0, created |-> 0, destroyed |-> 0,
            rethrow |-> FALSE]

\* The finally lost: destroy is reached only when sendAndWait returns.
afterSendAndWaitNoFinally(kind, threw) == IF threw THEN "throw" ELSE "destroy"

\* try { await session.sendAndWait(...) } finally { await session.destroy() }:
\* what follows sendAndWait. The legacy handlers have no finally: destroy is
\* the statement after sendAndWait.
afterSendAndWait(kind, threw) ==
    IF kind \in LegacyKinds /\ threw THEN "throw" ELSE "destroy"

\* An exception leaves the unit's function: withRetry sleeps when the unit is a
\* date with attempts left; otherwise the catch around the unit takes it (for
\* a legacy request the catch of its handler). The second implementation has
\* neither: the exception is the rejection of the unit's promise.
thrown(kind, u) ==
    IF kind = "fetchDay" /\ attemptsRemain(u.attempt, fetchDayOptions)
    THEN [u EXCEPT !.pc = "sleep", !.rethrow = FALSE]
    ELSE IF kind \in SecondKinds
    THEN [u EXCEPT !.pc = "uncaught", !.rethrow = FALSE]
    ELSE [u EXCEPT !.pc = "caught", !.rethrow = FALSE]

InitSession ==
    /\ workIqCircuitBreaker = NewCircuitBreaker
    /\ now = StartTime
    /\ HarnessUnused
    /\ RetryUnused
    /\ DelayUnused
    /\ PipelineIdle
    /\ StreamUnused /\ DateRangeUnused /\ ExtractionUnused
    /\ RequestsUnused /\ ShadowUnused
    /\ \E k \in UnitKinds \cup SecondKinds \cup LegacyKinds, n \in 1..MaxUnits :
         /\ k \in LegacyKinds => n = 1
         /\ sessions = [kind |-> k, units |-> [i \in 1..n |-> NewUnit],
                         settled |-> FALSE, rejected |-> FALSE]

\* await copilot.createSession(...) is over: the session is there, or the call threw.
CreateSessionSettles(i) ==
    /\ sessions.units[i].pc = "createSession"
    /\ \/ sessions' = [sessions EXCEPT !.units[i].pc = "sendAndWait",
                                       !.units[i].created = @ + 1]
       \/ sessions' = [sessions EXCEPT !.units[i] = thrown(sessions.kind, @)]
    /\ UNCHANGED <<mainVars, stream, dateRange, extraction, requests, shadow>>

\* await session.sendAndWait(...) is over: it returned, or it threw (its timeout
\* too).
SendAndWaitSettles(i) ==
    /\ sessions.units[i].pc = "sendAndWait"
    /\ \E threw \in BOOLEAN :
         IF afterSendAndWait(sessions.kind, threw) = "destroy"
         THEN sessions' = [sessions EXCEPT !.units[i].pc = "destroy",
                                           !.units[i].rethrow = threw]
         ELSE sessions' = [sessions EXCEPT !.units[i] = thrown(sessions.kind, @)]
    /\ UNCHANGED <<mainVars, stream, dateRange, extraction, requests, shadow>>

\* await session.destroy() is over. It returned: the exception of sendAndWait
\* goes on, or the response is parsed and the unit returns (for a date
\* JSON.parse may throw). It threw: its exception leaves the unit's function.
DestroySettles(i) ==
    /\ sessions.units[i].pc = "destroy"
    /\ LET u == [sessions.units[i] EXCEPT !.destroyed = @ + 1]
       IN  \/ /\ ~u.rethrow
              /\ sessions' = [sessions EXCEPT !.units[i] = [u EXCEPT !.pc = "returned"]]
           \/ /\ u.rethrow \/ sessions.kind = "fetchDay"
              /\ sessions' = [sessions EXCEPT !.units[i] = thrown(sessions.kind, u)]
           \/ sessions' = [sessions EXCEPT !.units[i] = thrown(sessions.kind, u)]
    /\ UNCHANGED <<mainVars, stream, dateRange, extraction, requests, shadow>>

\* withRetry: the sleep is over, the next attempt calls createSession.
RetrySleepElapses(i) ==
    /\ sessions.units[i].pc = "sleep"
    /\ sessions' = [sessions EXCEPT !.units[i].pc = "createSession",
                                    !.units[i].attempt = @ + 1]
    /\ UNCHANGED <<mainVars, stream, dateRange, extraction, requests, shadow>>

\* await Promise.all(...) of the stage is over: every unit has reported (for a
\* legacy request: its response is sent).
StageSettles ==
    /\ ~sessions.settled
    /\ ~sessions.rejected
    /\ \A i \in DOMAIN sessions.units : sessions.units[i].pc \in {"returned", "caught"}
    /\ sessions' = [sessions EXCEPT !.settled = TRUE]
    /\ UNCHANGED <<mainVars, stream, dateRange, extraction, requests, shadow>>

\* await Promise.all(...) of a stage of the second implementation rejects with
\* the exception of a unit: the catch of the handler sends the error event.
StageRejects ==
    /\ ~sessions.settled
    /\ ~sessions.rejected
    /\ \E i \in DOMAIN sessions.units : sessions.units[i].pc = "uncaught"
    /\ sessions' = [sessions EXCEPT !.rejected = TRUE]
    /\ UNCHANGED <<mainVars, stream, dateRange, extraction, requests, shadow>>

NextSession ==
    \/ \E i \in DOMAIN sessions.units : CreateSessionSettles(i)
    \/ \E i \in DOMAIN sessions.units : SendAndWaitSettles(i)
    \/ \E i \in DOMAIN sessions.units : DestroySettles(i)
    \/ \E i \in DOMAIN sessions.units : RetrySleepElapses(i)
    \/ StageSettles
    \/ StageRejects

SpecSession == InitSession /\ [][NextSession]_vars

(***************************************************************************)
(* SpecStream: the event stream of one request. The handler's sendEvent    *)
(* calls along its stages, the heartbeat timer, and the close and error    *)
(* events of the request                                                   *)
(***************************************************************************)

\* The most heartbeats the timer writes in SpecStream.
MaxHeartbeats == 2

\* The variables SpecStream leaves alone.
streamRest == <<mainVars, sessions, dateRange, extraction, requests, shadow>>

\* Nothing written to the response.
NothingWritten == [status |-> 0, heartbeat |-> 0, complete |-> 0, error |-> 0]

\* The stage after a stage of the handler.
nextStage(pc) ==
    CASE pc = "fetching"   -> "extracting"
      [] pc = "extracting" -> "merging"
      [] pc = "merging"    -> "complete"

\* res.write(...) of one event: it returns, or it throws.
write(s, type, threw) ==
    IF threw THEN [s EXCEPT !.isClientConnected = FALSE]
             ELSE [s EXCEPT !.written[type] = @ + 1]

\* sendEvent that writes whatever isClientConnected says.
sendEventUnguarded(s, type, threw) == write(s, type, threw)

\* const sendEvent = (type, data) => { if (isClientConnected) { try { res.write }
\* catch { isClientConnected = false } } }
sendEvent(s, type, threw) ==
    IF s.isClientConnected THEN write(s, type, threw) ELSE s

\* The callback of the heartbeat timer.
heartbeat(s, threw) ==
    IF s.isClientConnected
    THEN IF threw THEN [s EXCEPT !.isClientConnected = FALSE,
                                 !.heartbeatInterval = "cleared"]
                  ELSE [s EXCEPT !.written.heartbeat = @ + 1]
    ELSE s

\* A close or error handler that ends the run as well.
disconnectAborts(s, event) ==
    [s EXCEPT !.isClientConnected = FALSE, !.heartbeatInterval = "cleared",
              !.request = event, !.pc = "failed", !.pending = 0]

\* The handlers of the request's close and error events.
disconnect(s, event) ==
    [s EXCEPT !.isClientConnected = FALSE, !.heartbeatInterval = "cleared",
              !.request = event]

\* The end of the handler, in its try or in its catch: the terminal event,
\* clearInterval(heartbeatInterval), res.end().
endStream(s, type, threw) ==
    [sendEvent(s, type, threw) EXCEPT !.heartbeatInterval = "cleared",
                                      !.pc = IF type = "complete" THEN "complete"
                                                                  ELSE "failed"]

\* The handler enters its try: the status event of the connection, then
\* await getClient().
connect(s, threw) == [sendEvent(s, "status", threw) EXCEPT !.pc = "connecting"]

\* await getClient() returned: the status event of step 1, and the calls of
\* the n dates are issued.
getClientReturns(s, n, threw) ==
    [sendEvent(s, "status", threw) EXCEPT !.pc = "fetching", !.pending = n]

\* A QueryService call of the stage is over: the status event of its result or
\* of its failure.
callSettles(s, threw) == [sendEvent(s, "status", threw) EXCEPT !.pending = @ - 1]

\* await Promise.all(...) of the fetch or the extraction stage returned: the
\* status event of the stage, and the n calls of the next stage are issued.
stageReturns(s, n, threw) ==
    [sendEvent(s, "status", threw) EXCEPT !.pc = nextStage(s.pc), !.pending = n]

\* mergeDuplicates returned: the status event, the complete event, the end.
mergeReturns(s, threw, threw2) ==
    endStream(sendEvent(s, "status", threw), "complete", threw2)

\* The handler has flushed the headers and set the timer and the listeners.
InitStream ==
    /\ workIqCircuitBreaker = NewCircuitBreaker
    /\ now = StartTime
    /\ HarnessUnused
    /\ RetryUnused
    /\ DelayUnused
    /\ PipelineIdle
    /\ SessionsUnused /\ DateRangeUnused /\ ExtractionUnused
    /\ RequestsUnused /\ ShadowUnused
    /\ stream = [pc |-> "start", pending |-> 0, isClientConnected |-> TRUE,
                 heartbeatInterval |-> "set", request |-> "open",
                 written |-> NothingWritten]

\* The timer fires.
Heartbeat ==
    /\ stream.heartbeatInterval = "set"
    /\ stream.written.heartbeat < MaxHeartbeats
    /\ \E threw \in BOOLEAN : stream' = heartbeat(stream, threw)
    /\ UNCHANGED streamRest

\* req.on("close", ...)
ReqClose ==
    /\ stream.request # "close"
    /\ stream' = disconnect(stream, "close")
    /\ UNCHANGED streamRest

\* req.on("error", ...)
ReqError ==
    /\ stream.request = "open"
    /\ stream' = disconnect(stream, "error")
    /\ UNCHANGED streamRest

\* The handler enters its try: the status event of the connection, then
\* await getClient().
Connect ==
    /\ stream.pc = "start"
    /\ \E threw \in BOOLEAN : stream' = connect(stream, threw)
    /\ UNCHANGED streamRest

\* await getClient() is over. It returned: the status event of step 1, the calls
\* of the dates are issued. It threw: the catch of the handler.
GetClientSettles ==
    /\ stream.pc = "connecting"
    /\ \E threw \in BOOLEAN :
         \/ \E n \in 1..MaxUnits : stream' = getClientReturns(stream, n, threw)
         \/ stream' = endStream(stream, "error", threw)
    /\ UNCHANGED streamRest

\* A QueryService call of the stage is over: the status event of its result or
\* of its failure.
CallSettles ==
    /\ stream.pc \in {"fetching", "extracting", "merging"}
    /\ stream.pending > 0
    /\ \E threw \in BOOLEAN : stream' = callSettles(stream, threw)
    /\ UNCHANGED streamRest

\* await Promise.all(...) of the stage is over: the status event of the stage,
\* then the calls of the next stage are issued, or after the merge the status
\* and the complete event; or the stage threw (the grouping loop of
\* mergeDuplicates): the catch of the handler.
StageEnds ==
    /\ stream.pc \in {"fetching", "extracting", "merging"}
    /\ stream.pending = 0
    /\ \E threw, threw2 \in BOOLEAN :
         \/ /\ stream.pc # "merging"
            /\ \E n \in 0..MaxUnits : stream' = stageReturns(stream, n, threw)
         \/ /\ stream.pc = "merging"
            /\ stream' = mergeReturns(stream, threw, threw2)
         \/ /\ stream.pc = "extracting"
            /\ stream' = endStream(stream, "error", threw)
    /\ UNCHANGED streamRest

\* The steps of the handler.
HandlerStep == Connect \/ GetClientSettles \/ CallSettles \/ StageEnds

NextStream == Heartbeat \/ ReqClose \/ ReqError \/ HandlerStep

SpecStream == InitStream /\ [][NextStream]_vars

(***************************************************************************)
(* SpecAdvisory: the handler of SpecStream run twice on the same behaviour *)
(* of the QueryService, step by step: `stream` with a client that may go   *)
(* away and writes that may throw, `shadow` with the client connected and  *)
(* every write written                                                     *)
(***************************************************************************)

\* The variables SpecAdvisory leaves alone.
advisoryRest == <<mainVars, sessions, dateRange, extraction, requests>>

\* Both handlers have flushed the headers and set the timer and the listeners.
InitAdvisory ==
    /\ workIqCircuitBreaker = NewCircuitBreaker
    /\ now = StartTime
    /\ HarnessUnused
    /\ RetryUnused
    /\ DelayUnused
    /\ PipelineIdle
    /\ SessionsUnused /\ DateRangeUnused /\ ExtractionUnused /\ RequestsUnused
    /\ stream = [pc |-> "start", pending |-> 0, isClientConnected |-> TRUE,
                 heartbeatInterval |-> "set", request |-> "open",
                 written |-> NothingWritten]
    /\ shadow = stream

\* Both handlers enter their try.
BothConnect ==
    /\ stream.pc = "start" /\ shadow.pc = "start"
    /\ \E threw \in BOOLEAN : stream' = connect(stream, threw)
    /\ shadow' = connect(shadow, FALSE)
    /\ UNCHANGED advisoryRest

\* await getClient() is over in both, with the same outcome.
BothGetClientSettle ==
    /\ stream.pc = "connecting" /\ shadow.pc = "connecting"
    /\ \E threw \in BOOLEAN :
         \/ \E n \in 1..MaxUnits :
              /\ stream' = getClientReturns(stream, n, threw)
              /\ shadow' = getClientReturns(shadow, n, FALSE)
         \/ /\ stream' = endStream(stream, "error", threw)
            /\ shadow' = endStream(shadow, "error", FALSE)
    /\ UNCHANGED advisoryRest

\* The same QueryService call of the stage is over in both.
BothCallSettle ==
    /\ stream.pc \in {"fetching", "extracting", "merging"} /\ shadow.pc = stream.pc
    /\ stream.pending > 0 /\ shadow.pending > 0
    /\ \E threw \in BOOLEAN : stream' = callSettles(stream, threw)
    /\ shadow' = callSettles(shadow, FALSE)
    /\ UNCHANGED advisoryRest

\* await Promise.all(...) of the stage is over in both, with the same outcome.
BothStageEnd ==
    /\ stream.pc \in {"fetching", "extracting", "merging"} /\ shadow.pc = stream.pc
    /\ stream.pending = 0 /\ shadow.pending = 0
    /\ \E threw, threw2 \in BOOLEAN :
         \/ /\ stream.pc # "merging"
            /\ \E n \in 0..MaxUnits :
                 /\ stream' = stageReturns(stream, n, threw)
                 /\ shadow' = stageReturns(shadow, n, FALSE)
         \/ /\ stream.pc = "merging"
            /\ stream' = mergeReturns(stream, threw, threw2)
            /\ shadow' = mergeReturns(shadow, FALSE, FALSE)
         \/ /\ stream.pc = "extracting"
            /\ stream' = endStream(stream, "error", threw)
            /\ shadow' = endStream(shadow, "error", FALSE)
    /\ UNCHANGED advisoryRest

NextAdvisory ==
    \/ Heartbeat
    \/ ReqClose
    \/ ReqError
    \/ BothConnect
    \/ BothGetClientSettle
    \/ BothCallSettle
    \/ BothStageEnd

SpecAdvisory == InitAdvisory /\ [][NextAdvisory]_vars

(***************************************************************************)
(* SpecDates: getDateRange and formatLocalDate. A Date is the calendar     *)
(* date of its instant in local time (year, month 0..11, date) and the     *)
(* days the calendar date of the same instant in UTC is ahead of it; a     *)
(* string is the sequence of its characters                                *)
(***************************************************************************)

\* The most days getDateRange is asked for in SpecDates.
MaxRangeDays == 33

\* The variables SpecDates leaves alone.
datesRest == <<mainVars, sessions, stream, extraction, requests, shadow>>

isLeapYear(y) == (y % 4 = 0 /\ y % 100 # 0) \/ y % 400 = 0

\* The days of month m (0..11) of year y.
daysInMonth(y, m) ==
    CASE m = 1 -> IF isLeapYear(y) THEN 29 ELSE 28
      [] m \in {3, 5, 8, 10} -> 30
      [] OTHER -> 31

\* The instants `new Date()` gives in SpecDates: days at the start, in the
\* middle and at the end of every month of a leap year, of the year after it
\* and of a century year that is no leap year, at times of day at which the
\* date in UTC is the day before, the same day, and the day after.
Nows ==
    { [year |-> y, month |-> m, date |-> d, utcAhead |-> u] :
        y \in {2024, 2025, 2100}, m \in 0..11, d \in {1, 2, 15, 29, 31},
        u \in {-1, 0, 1} }

RECURSIVE setDate(_, _)
\* Date.prototype.setDate(dt): day dt of the month of the date, counted on into
\* the months after it when dt is past its end and back into the months before
\* it when dt < 1; the time of day stays.
setDate(D, dt) ==
    IF dt < 1
    THEN LET before == IF D.month = 0 THEN [D EXCEPT !.year = @ - 1, !.month = 11]
                                      ELSE [D EXCEPT !.month = @ - 1]
         IN  setDate(before, dt + daysInMonth(before.year, before.month))
    ELSE IF dt > daysInMonth(D.year, D.month)
    THEN LET after == IF D.month = 11 THEN [D EXCEPT !.year = @ + 1, !.month = 0]
                                      ELSE [D EXCEPT !.month = @ + 1]
         IN  setDate(after, dt - daysInMonth(D.year, D.month))
    ELSE [D EXCEPT !.date = dt]

\* The characters of the decimal digits.
DigitChars == <<"0", "1", "2", "3", "4", "5", "6", "7", "8", "9">>

RECURSIVE NumberToString(_)
\* String(n) for a natural number n: its decimal digits.
NumberToString(n) ==
    IF n < 10 THEN <<DigitChars[n + 1]>>
    ELSE Append(NumberToString(n \div 10), DigitChars[(n % 10) + 1])

RECURSIVE padStart(_, _, _)
\* str.padStart(targetLength, fill) for a fill of one character.
padStart(str, targetLength, fill) ==
    IF Len(str) >= targetLength THEN str
    ELSE padStart(<<fill>> \o str, targetLength, fill)

\* The date string of the UTC calendar (toISOString().split("T")[0]).
formatUTCDate(D) ==
    LET U == setDate(D, D.date + D.utcAhead)
    IN  NumberToString(U.year) \o <<"-">> \o padStart(NumberToString(U.month + 1), 2, "0")
            \o <<"-">> \o padStart(NumberToString(U.date), 2, "0")

\* function formatLocalDate(date): getFullYear, getMonth, getDate are of the
\* local calendar.
formatLocalDate(D) ==
    LET year == D.year
        month == padStart(NumberToString(D.month + 1), 2, "0")
        day == padStart(NumberToString(D.date), 2, "0")
    IN  NumberToString(year) \o <<"-">> \o month \o <<"-">> \o day

\* getDateRange(days) is called: const dates = [], const now = new Date(). A day
\* of the month that the month has not is no date `new Date()` gives.
InitDates ==
    /\ workIqCircuitBreaker = NewCircuitBreaker
    /\ now = StartTime
    /\ HarnessUnused
    /\ RetryUnused
    /\ DelayUnused
    /\ PipelineIdle
    /\ SessionsUnused /\ StreamUnused /\ ExtractionUnused
    /\ RequestsUnused /\ ShadowUnused
    /\ \E D \in Nows, n \in 1..MaxRangeDays :
         /\ D.date <= daysInMonth(D.year, D.month)
         /\ dateRange = [days |-> n, now |-> D, dayOffset |-> 0, dates |-> <<>>,
                         returned |-> FALSE]

\* One turn of the loop: targetDate = new Date(now);
\* targetDate.setDate(now.getDate() - dayOffset); dates.push(formatLocalDate(targetDate))
DateLoop ==
    /\ dateRange.dayOffset < dateRange.days
    /\ LET targetDate == setDate(dateRange.now, dateRange.now.date - dateRange.dayOffset)
       IN  dateRange' = [dateRange EXCEPT !.dates = Append(@, formatLocalDate(targetDate)),
                                          !.dayOffset = @ + 1]
    /\ UNCHANGED datesRest

\* return dates
DateRangeReturns ==
    /\ dateRange.dayOffset = dateRange.days
    /\ ~dateRange.returned
    /\ dateRange' = [dateRange EXCEPT !.returned = TRUE]
    /\ UNCHANGED datesRest

NextDates == DateLoop \/ DateRangeReturns

SpecDates == InitDates /\ [][NextDates]_vars

(***************************************************************************)
(* SpecExtract: cleanJsonResponse, extractJsonArray and extractJsonObject. *)
(* A response is the sequence of its tokens: the brackets, braces, commas  *)
(* and colons, a number and a string literal, words of prose, white space, *)
(* and the three backticks of a code fence                                 *)
(***************************************************************************)

\* The most tokens of prose before and after the embedded JSON text.
MaxProse == 2

\* The variables SpecExtract leaves alone.
extractRest == <<mainVars, sessions, stream, dateRange, requests, shadow>>

\* The token of the three backticks of a code fence.
Fence == "fence"

\* The tokens of white space.
WhiteSpace == {" ", "\n"}

\* The JSON values: a number, a string, an array of values, an object of
\* members by key.
JsonNumber == [t |-> "number"]
JsonString == [t |-> "string"]
JsonArray(items) == [t |-> "array", items |-> items]
JsonObject(members) == [t |-> "object", members |-> members]

\* The failure of a parse.
SyntaxError == [ok |-> FALSE]

RECURSIVE removeFences(_, _)
\* response.replace(/```json\n?/g, "") when withJson, response.replace(/```\n?/g, "")
\* when not: the matches are dropped from left to right.
removeFences(toks, withJson) ==
    IF toks = <<>> THEN <<>>
    ELSE LET opener == IF withJson THEN <<Fence, "json">> ELSE <<Fence>>
             n == Len(opener)
         IN  IF Len(toks) >= n /\ SubSeq(toks, 1, n) = opener
             THEN IF Len(toks) > n /\ toks[n + 1] = "\n"
                  THEN removeFences(SubSeq(toks, n + 2, Len(toks)), withJson)
                  ELSE removeFences(SubSeq(toks, n + 1, Len(toks)), withJson)
             ELSE <<toks[1]>> \o removeFences(Tail(toks), withJson)

RECURSIVE trim(_)
\* String.prototype.trim()
trim(toks) ==
    IF toks = <<>> THEN <<>>
    ELSE IF toks[1] \in WhiteSpace THEN trim(Tail(toks))
    ELSE IF toks[Len(toks)] \in WhiteSpace THEN trim(SubSeq(toks, 1, Len(toks) - 1))
    ELSE toks

\* function cleanJsonResponse(response)
cleanJsonResponse(response) == trim(removeFences(removeFences(response, TRUE), FALSE))

\* cleaned.match(/\[[\s\S]*\]/) and cleaned.match(/\{[\s\S]*\}/): from the first
\* opening token that has a closing token after it to the last closing token;
\* <<>> for no match.
match(cleaned, open, close) ==
    LET opens == { i \in DOMAIN cleaned : cleaned[i] = open }
        closes == { i \in DOMAIN cleaned : cleaned[i] = close }
    IN  IF \E i \in opens, j \in closes : i < j
        THEN LET last == CHOOSE j \in closes : \A k \in closes : k <= j
                 first == CHOOSE i \in opens : \A k \in opens : i <= k
             IN  SubSeq(cleaned, first, last)
        ELSE <<>>

RECURSIVE skipWhiteSpace(_, _)
\* JSON.parse: the place of the next token that is no white space.
skipWhiteSpace(toks, i) ==
    IF i <= Len(toks) /\ toks[i] \in WhiteSpace THEN skipWhiteSpace(toks, i + 1) ELSE i

RECURSIVE parseValue(_, _)
RECURSIVE parseElements(_, _, _)
RECURSIVE parseMembers(_, _, _)
\* JSON.parse: the value that starts at token i, and the place after it.
parseValue(toks, i) ==
    LET j == skipWhiteSpace(toks, i)
    IN  IF j > Len(toks) THEN SyntaxError
        ELSE CASE toks[j] = "1" -> [ok |-> TRUE, value |-> JsonNumber, next |-> j + 1]
               [] toks[j] = "\"k\"" -> [ok |-> TRUE, value |-> JsonString, next |-> j + 1]
               [] toks[j] = "[" ->
                     LET k == skipWhiteSpace(toks, j + 1)
                     IN  IF k <= Len(toks) /\ toks[k] = "]"
                         THEN [ok |-> TRUE, value |-> JsonArray(<<>>), next |-> k + 1]
                         ELSE parseElements(toks, k, <<>>)
               [] toks[j] = "{" ->
                     LET k == skipWhiteSpace(toks, j + 1)
                     IN  IF k <= Len(toks) /\ toks[k] = "}"
                         THEN [ok |-> TRUE, value |-> JsonObject(<<>>), next |-> k + 1]
                         ELSE parseMembers(toks, k, <<>>)
               [] OTHER -> SyntaxError

\* JSON.parse: the elements of an array from token i on, after the elements acc.
parseElements(toks, i, acc) ==
    LET v == parseValue(toks, i)
    IN  IF ~v.ok THEN SyntaxError
        ELSE LET k == skipWhiteSpace(toks, v.next)
             IN  IF k > Len(toks) THEN SyntaxError
                 ELSE IF toks[k] = "]"
                 THEN [ok |-> TRUE, value |-> JsonArray(Append(acc, v.value)),
                       next |-> k + 1]
                 ELSE IF toks[k] = ","
                 THEN parseElements(toks, k + 1, Append(acc, v.value))
                 ELSE SyntaxError

\* JSON.parse: the members of an object from token i on, after the members acc;
\* a key that comes again takes the later value.
parseMembers(toks, i, acc) ==
    LET j == skipWhiteSpace(toks, i)
        c == skipWhiteSpace(toks, j + 1)
    IN  IF c > Len(toks) \/ toks[j] # "\"k\"" \/ toks[c] # ":" THEN SyntaxError
        ELSE LET v == parseValue(toks, c + 1)
             IN  IF ~v.ok THEN SyntaxError
                 ELSE LET k == skipWhiteSpace(toks, v.next)
                          members == [key \in DOMAIN acc \cup {toks[j]} |->
                                         IF key = toks[j] THEN v.value ELSE acc[key]]
                      IN  IF k > Len(toks) THEN SyntaxError
                          ELSE IF toks[k] = "}"
                          THEN [ok |-> TRUE, value |-> JsonObject(members), next |-> k + 1]
                          ELSE IF toks[k] = ","
                          THEN parseMembers(toks, k + 1, members)
                          ELSE SyntaxError

\* try { return JSON.parse(text) } catch { return null }: the text is one value
\* and white space.
parseOrNull(text) ==
    LET v == parseValue(text, 1)
    IN  IF v.ok /\ skipWhiteSpace(text, v.next) > Len(text) THEN v.value ELSE null

\* function extractJsonArray(response)
extractJsonArray(response) ==
    LET arrayMatch == match(cleanJsonResponse(response), "[", "]")
    IN  IF arrayMatch # <<>> THEN parseOrNull(arrayMatch) ELSE null

\* function extractJsonObject(response)
extractJsonObject(response) ==
    LET objMatch == match(cleanJsonResponse(response), "{", "}")
    IN  IF objMatch # <<>> THEN parseOrNull(objMatch) ELSE null

RECURSIVE stringify(_)
RECURSIVE stringifyItems(_)
\* JSON.stringify(value): the text of the value that a response embeds.
stringify(v) ==
    CASE v.t = "number" -> <<"1">>
      [] v.t = "string" -> <<"\"k\"">>
      [] v.t = "array" -> <<"[">> \o stringifyItems(v.items) \o <<"]">>
      [] v.t = "object" ->
            IF DOMAIN v.members = {} THEN <<"{", "}">>
            ELSE <<"{", "\"k\"", ":">> \o stringify(v.members["\"k\""]) \o <<"}">>

\* The texts of the elements, with commas between them.
stringifyItems(items) ==
    IF items = <<>> THEN <<>>
    ELSE IF Len(items) = 1 THEN stringify(items[1])
    ELSE stringify(items[1]) \o <<",">> \o stringifyItems(Tail(items))

\* The object with the one member "k".
ObjectOf(v) == JsonObject([key \in {"\"k\""} |-> v])

\* The arrays and the objects that responses embed in SpecExtract.
EmbeddedArrays ==
    { JsonArray(<<>>), JsonArray(<<JsonNumber>>), JsonArray(<<JsonNumber, JsonString>>),
      JsonArray(<<JsonArray(<<JsonNumber>>)>>), JsonArray(<<ObjectOf(JsonString)>>) }
EmbeddedObjects ==
    { JsonObject(<<>>), ObjectOf(JsonNumber), ObjectOf(JsonArray(<<JsonNumber>>)),
      ObjectOf(ObjectOf(JsonString)) }

\* The tokens of the prose around the JSON text.
ProseTokens == {"words", " ", "[", "]", "{", "}"}

\* A response: prose, the text of the value, bare or in a json code fence, prose.
Response(before, v, fenced, after) ==
    before
        \o (IF fenced THEN <<Fence, "json", "\n">> \o stringify(v) \o <<"\n", Fence>>
                      ELSE stringify(v))
        \o after

\* A response that embeds an array or an object is given to the helper of its
\* mode.
InitExtract ==
    /\ workIqCircuitBreaker = NewCircuitBreaker
    /\ now = StartTime
    /\ HarnessUnused
    /\ RetryUnused
    /\ DelayUnused
    /\ PipelineIdle
    /\ SessionsUnused /\ StreamUnused /\ DateRangeUnused
    /\ RequestsUnused /\ ShadowUnused
    /\ \E mode \in {"array", "object"}, fenced \in BOOLEAN,
          before, after \in SeqsUpTo(ProseTokens, MaxProse) :
         \E v \in IF mode = "array" THEN EmbeddedArrays ELSE EmbeddedObjects :
            extraction = [mode |-> mode, embedded |-> v, fenced |-> fenced,
                          response |-> Response(before, v, fenced, after),
                          returned |-> FALSE, result |-> null]

\* const result = extractJsonArray(response)
ExtractJsonArrayCall ==
    /\ extraction.mode = "array"
    /\ ~extraction.returned
    /\ extraction' = [extraction EXCEPT !.returned = TRUE,
                                        !.result = extractJsonArray(extraction.response)]
    /\ UNCHANGED extractRest

\* const result = extractJsonObject(response)
ExtractJsonObjectCall ==
    /\ extraction.mode = "object"
    /\ ~extraction.returned
    /\ extraction' = [extraction EXCEPT !.returned = TRUE,
                                        !.result = extractJsonObject(extraction.response)]
    /\ UNCHANGED extractRest

NextExtract == ExtractJsonArrayCall \/ ExtractJsonObjectCall

SpecExtract == InitExtract /\ [][NextExtract]_vars

(***************************************************************************)
(* SpecClient: getClient() under requests that arrive while others are in  *)
(* progress. A request runs from its call of getClient() to its first      *)
(* createSession call without a step of another in between, but for the    *)
(* await of client.start()                                                 *)
(***************************************************************************)

\* The requests of a behaviour of SpecClient.
MaxRequests == 3

\* The variables SpecClient leaves alone.
clientRest == <<mainVars, sessions, stream, dateRange, extraction, shadow>>

\* A request that has not arrived.
NoRequest == [pc |-> "idle", client |-> "none"]

\* let client: CopilotClient | null = null, and no request yet.
InitClient ==
    /\ workIqCircuitBreaker = NewCircuitBreaker
    /\ now = StartTime
    /\ HarnessUnused
    /\ RetryUnused
    /\ DelayUnused
    /\ PipelineIdle
    /\ SessionsUnused /\ StreamUnused /\ DateRangeUnused /\ ExtractionUnused
    /\ ShadowUnused
    /\ requests = [client |-> "null", constructed |-> 0,
                   req |-> [i \in 1..MaxRequests |-> NoRequest]]

\* A request calls getClient(). With no client it constructs one, assigns it
\* and awaits its start(). With `client` assigned getClient returns it, and the
\* handler goes on to the createSession call of its first date with the client
\* as it is then.
GetClient(i) ==
    /\ requests.req[i].pc = "idle"
    /\ requests' =
          IF requests.client = "null"
          THEN [requests EXCEPT !.client = "starting",
                                !.constructed = @ + 1,
                                !.req[i] = [pc |-> "getClient", client |-> "none"]]
          ELSE [requests EXCEPT !.req[i] = [pc |-> "session", client |-> requests.client]]
    /\ UNCHANGED clientRest

\* client.start() settles. It returned: getClient returns to the request that
\* awaited it, which goes on to its createSession call. It threw: getClient
\* throws, the catch of that request's handler sends the error event; `client`
\* stays assigned.
StartSettles ==
    /\ requests.client = "starting"
    /\ \E threw \in BOOLEAN :
          requests' =
             [requests EXCEPT
                !.client = IF threw THEN "broken" ELSE "started",
                !.req = [i \in DOMAIN @ |->
                           IF @[i].pc = "getClient"
                           THEN IF threw THEN [pc |-> "failed", client |-> "none"]
                                         ELSE [pc |-> "session", client |-> "started"]
                           ELSE @[i]]]
    /\ UNCHANGED clientRest

\* A request's handler comes to its end.
RequestEnds(i) ==
    /\ requests.req[i].pc \in {"session", "failed"}
    /\ requests' = [requests EXCEPT !.req[i].pc = "done"]
    /\ UNCHANGED clientRest

NextClient ==
    \/ \E i \in 1..MaxRequests : GetClient(i)
    \/ StartSettles
    \/ \E i \in 1..MaxRequests : RequestEnds(i)

SpecClient == InitClient /\ [][NextClient]_vars

(***************************************************************************)
(* Claims about withRetry and calculateDelay (SpecRetry, SpecDelay)        *)
(***************************************************************************)

RECURSIVE ExpectedEvents(_)
\* fn, then n times (onRetry k, sleep, fn), k = 1..n
ExpectedEvents(n) ==
    IF n = 0 THEN <<"fn">>
    ELSE ExpectedEvents(n - 1) \o <<"onRetry", "sleep", "fn">>

\* The calls of onRetry in the log.
OnRetryCalls == SelectSeq(log, LAMBDA e : e.ev = "onRetry")

\* C6: when every call of fn fails, withRetry with maxRetries = n rejects after
\* exactly n+1 calls of fn and n calls of onRetry, numbered 1..n, each followed by
\* its sleep (of the delay onRetry was given) and then the next call of fn; nothing
\* follows the last call of fn.
C6_RetryExhaustion ==
    rpc = "rejected" =>
        /\ [i \in 1..Len(log) |-> log[i].ev] = ExpectedEvents(opts.maxRetries)
        /\ Len(OnRetryCalls) = opts.maxRetries
        /\ \A i \in 1..Len(OnRetryCalls) : OnRetryCalls[i].attempt = i
        /\ \A i \in 1..Len(log) :
             log[i].ev = "onRetry" => log[i + 1] = SleepCalled(log[i].delayMs)

\* C6's case: two retries, all three calls failed.
C6_Witness == rpc = "rejected" /\ opts.maxRetries = 2 /\ Len(log) = 7

\* C7 as claimed: when every attempt fails, withRetry rejects with exactly the
\* value the last call of fn threw (same identity and type), whatever it was.
C7_LastErrorUnchanged == rpc = "rejected" => outcome = lastThrown

\* C7 as amended: when every attempt fails (maxRetries >= 0), withRetry rejects
\* with the very value the last call of fn threw if that value is an Error
\* instance, and otherwise with a new Error whose message is String(value).
C7_LastErrorNormalized ==
    rpc = "rejected" =>
        IF instanceofError(lastThrown)
        THEN outcome = lastThrown
        ELSE /\ outcome.kind = "Error"
             /\ outcome.val = String(lastThrown)
             /\ \A e \in ThrownValues : outcome.ref # e.ref

\* C7's case: retries happened, the last call threw an Error object other than the
\* one an earlier call threw, and withRetry rejected.
C7_Witness ==
    /\ rpc = "rejected"
    /\ opts.maxRetries >= 1
    /\ instanceofError(lastThrown)
    /\ OnRetryCalls[1].error # lastThrown

\* C8: for every attempt index and every jitter draw the delay is at most
\* maxDelayMs and at least min(baseDelayMs * backoffMultiplier^attempt,
\* maxDelayMs); with the jitter left out it does not decrease from one attempt to
\* the next.
C8_DelayBounds ==
    LET o == delayArgs.options
        exponentialDelay == o.baseDelayMs * pow(o.backoffMultiplier, delayArgs.attempt)
    IN  /\ delayMs >= 0 =>
               /\ delayMs <= o.maxDelayMs * DelayScale
               /\ delayMs >= min(exponentialDelay, o.maxDelayMs) * DelayScale
        /\ \A a \in 0..MaxAttempt :
               calculateDelay(a + 1, o, 0) >= calculateDelay(a, o, 0)

\* C8's case: a delay that the cap cut (the exponential delay plus jitter is above
\* maxDelayMs), and one with jitter that it did not.
C8_Witness ==
    /\ delayMs = delayArgs.options.maxDelayMs * DelayScale
    /\ delayArgs.random > 0
    /\ delayArgs.attempt = MaxAttempt
    /\ delayArgs.options = DEFAULT_OPTIONS

(***************************************************************************)
(* Claims about the circuit breaker (SpecCB)                               *)
(***************************************************************************)

\* The steps of the harness, told by what they count.
IsExecuteStep == Started' = Started + 1
IsResolveStep == succeeded' = succeeded + 1
IsRejectStep == failed' = failed + 1

\* C1: from a closed breaker with zero failures, whatever the interleaving of
\* execute calls: the failure that brings the count of failures without a success
\* in between to failureThreshold leaves the breaker open; an execute call started
\* while it is open and before the cooldown has elapsed rejects without invoking
\* its operation; and onOpen fires exactly once per closed-to-open transition (it
\* fires only on such a transition, and once).
C1_OpensOncePerTransition ==
    [][ /\ (IsRejectStep /\ workIqCircuitBreaker'.state.failures >= failureThreshold)
            => workIqCircuitBreaker'.state.isOpen
        /\ (IsExecuteStep /\ workIqCircuitBreaker.state.isOpen
                /\ ~CooledDown(workIqCircuitBreaker, now))
            => (rejected' = rejected + 1 /\ inflight' = inflight)
        /\ (~workIqCircuitBreaker.state.isOpen /\ workIqCircuitBreaker'.state.isOpen)
            => workIqCircuitBreaker'.onOpen = workIqCircuitBreaker.onOpen + 1
        /\ (workIqCircuitBreaker'.onOpen # workIqCircuitBreaker.onOpen)
            => (~workIqCircuitBreaker.state.isOpen /\ workIqCircuitBreaker'.state.isOpen)
      ]_vars

\* C3: an execute call made while the breaker is open and the cooldown has not
\* elapsed throws the breaker-open error, does not invoke its operation, fires no
\* callback and leaves failures, lastFailure and isOpen as they were.
C3_OpenRejectsUnchanged ==
    [][ (IsExecuteStep /\ workIqCircuitBreaker.state.isOpen
            /\ ~CooledDown(workIqCircuitBreaker, now))
        => /\ rejected' = rejected + 1
           /\ inflight' = inflight
           /\ workIqCircuitBreaker' = workIqCircuitBreaker
      ]_vars

\* C3's case: a call was rejected by the open breaker.
C3_Witness == rejected > 0 /\ workIqCircuitBreaker.state.isOpen

\* C4: an execute call made while the breaker is open and the cooldown has elapsed
\* resets the failure count to zero and invokes its operation; after an operation
\* succeeds the breaker is closed; and onClose fires exactly once per
\* open-to-closed transition.
C4_HalfOpenRecovery ==
    [][ /\ (IsExecuteStep /\ workIqCircuitBreaker.state.isOpen
                /\ CooledDown(workIqCircuitBreaker, now))
            => /\ workIqCircuitBreaker'.state.failures = 0
               /\ inflight' = inflight + 1
               /\ rejected' = rejected
        /\ IsResolveStep => ~workIqCircuitBreaker'.state.isOpen
        /\ (workIqCircuitBreaker.state.isOpen /\ ~workIqCircuitBreaker'.state.isOpen)
            <=> (workIqCircuitBreaker'.onClose # workIqCircuitBreaker.onClose)
        /\ workIqCircuitBreaker'.onClose \in
                {workIqCircuitBreaker.onClose, workIqCircuitBreaker.onClose + 1}
      ]_vars

\* C4's case: the breaker opened, cooled down, admitted the next call, and that
\* call's operation succeeded (it is the only call that was ever admitted after
\* the failureThreshold failing ones).
C4_Witness ==
    /\ halfOpens = 1
    /\ failed = failureThreshold
    /\ succeeded = 1
    /\ rejected = 0
    /\ inflight = 0
    /\ ~workIqCircuitBreaker.state.isOpen
    /\ workIqCircuitBreaker.onClose = 1

\* C5: every operation that succeeds leaves the failure count at zero, and the
\* breaker opens and fires onOpen only when at least failureThreshold operations
\* have failed since the last success.
C5_ConsecutiveOnly ==
    [][ /\ IsResolveStep => workIqCircuitBreaker'.state.failures = 0
        /\ workIqCircuitBreaker'.state.failures <= consecFail'
        /\ workIqCircuitBreaker'.state.isOpen => consecFail' >= failureThreshold
        /\ (workIqCircuitBreaker'.onOpen # workIqCircuitBreaker.onOpen)
            => consecFail' >= failureThreshold
      ]_vars

\* C5's case: failureThreshold-1 failures, one success, failureThreshold-1
\* failures (the count stands at failureThreshold-1, so the success came exactly
\* in the middle), the breaker closed and onOpen never fired.
C5_Witness ==
    /\ failed = 2 * (failureThreshold - 1)
    /\ succeeded = 1
    /\ workIqCircuitBreaker.state.failures = failureThreshold - 1
    /\ ~workIqCircuitBreaker.state.isOpen
    /\ workIqCircuitBreaker.onOpen = 0


(***************************************************************************)
(* Claims about the pipeline (Spec)                                        *)
(***************************************************************************)

\* The breaker is open and its cooldown has not elapsed.
OpenNotCooled ==
    /\ workIqCircuitBreaker.state.isOpen
    /\ ~CooledDown(workIqCircuitBreaker, now)

\* The dates whose QueryService call starts in this step.
CallsStarted ==
    { d \in DOMAIN fetch' :
        /\ fetch'[d].pc = "calling"
        /\ \/ d \notin DOMAIN fetch
           \/ fetch[d].pc # "calling" }

\* C2: while the breaker is open and resetTimeoutMs has not elapsed since the
\* last recorded failure, no step starts a QueryService call of a date fetch and
\* no step closes the breaker, also when date fetches were in flight when it
\* opened.
C2_OpenHoldsUntilCooldown ==
    [][OpenNotCooled =>
          /\ CallsStarted = {}
          /\ workIqCircuitBreaker'.state.isOpen]_vars

\* The emails a date contributes according to what the QueryService answered:
\* those of the array of a fetch that succeeded, none otherwise.
EmailsOf(d) ==
    IF fetch[d].pc = "ok" /\ served[d].kind = "array"
    THEN [i \in 1..served[d].n |-> RawEmail(d, i - 1)]
    ELSE <<>>

\* The dates of the run whose state a step changes.
DatesTouched ==
    { d \in DOMAIN fetch :
        \/ fetch'[d] # fetch[d]
        \/ dayResults'[d] # dayResults[d]
        \/ served'[d] # served[d] }

\* C9: a date fetch that fails (its retries exhausted, or rejected by the
\* breaker) does not end the run and touches no other date: a step of the fetch
\* stage changes one date at most, the stage ends only when every date has
\* settled, it ends in the extraction stage, and rawEmails is then the
\* concatenation in date order of the emails of the dates that succeeded, a
\* failed date contributing none.
C9_FetchIsolation ==
    [][/\ (stage = "fetching" /\ stage' = "fetching") => Cardinality(DatesTouched) <= 1
       /\ (stage = "fetching" /\ stage' # "fetching") =>
             /\ \A d \in DOMAIN fetch : DaySettled(d)
             /\ stage' = "extracting"
             /\ rawEmails' = flat([d \in DOMAIN fetch |-> EmailsOf(d)])]_vars

\* C9's case: the fetch stage is over, a date has failed and the run goes on
\* with the emails of another.
C9_Witness ==
    /\ stage = "extracting"
    /\ failedUnits.dates # {}
    /\ rawEmails # <<>>

\* The stories a batch contributes according to what the QueryService answered.
ItemsOf(b) ==
    IF batch[b].answer.kind = "array" THEN batch[b].answer.items ELSE <<>>

\* The batches, and the groups, whose state a step changes.
BatchesTouched ==
    { b \in DOMAIN batch : batch'[b] # batch[b] \/ batchResults'[b] # batchResults[b] }

GroupsTouched ==
    { g \in DOMAIN group : group'[g] # group[g] \/ mergedItems'[g] # mergedItems[g] }

\* C10: the exception of a batch's or a group's QueryService call stays in its
\* unit. A step of the extraction (merge) stage changes one batch (group) at
\* most; either stage ends only when all its units are done, and in the failed
\* run only when the grouping loop throws on a story that is null;
\* allNewsItems is the concatenation of the stories of the batches whose call
\* returned them, a batch whose call threw contributing none; and every group,
\* one whose call threw too, contributes one record, over its own items (the
\* first item's record when the call threw).
C10_UnitIsolation ==
    [][/\ (stage = "extracting" /\ stage' = "extracting") => Cardinality(BatchesTouched) <= 1
       /\ (stage = "extracting" /\ stage' # "extracting") =>
             /\ \A b \in DOMAIN batch : batch[b].pc = "done"
             /\ allNewsItems' = flat([b \in DOMAIN batch |-> ItemsOf(b)])
             /\ stage' = "merging" \/ groupingThrows(allNewsItems')
       /\ (stage = "merging" /\ stage' = "merging") => Cardinality(GroupsTouched) <= 1
       /\ (stage = "merging" /\ stage' # "merging") =>
             /\ \A g \in DOMAIN group : group[g].pc = "done"
             /\ stage' = "complete"
             /\ completeEvent'.stats.afterMerge = Len(group)
             /\ \A g \in DOMAIN group :
                   /\ mergedItems[g].value.originalItems = group[g].items
                   /\ group[g].answer.kind = "throws" =>
                         mergedItems[g].value = firstItemOnly(group[g].items)]_vars

\* C10's case: the run is complete although the call of a batch and the call of
\* a group threw, with the stories of another batch and the first item's record
\* for the group.
C10_Witness ==
    /\ stage = "complete"
    /\ failedUnits.batches # {}
    /\ failedUnits.groups # {}
    /\ \E g \in failedUnits.groups : Len(group[g].items) > 1


\* C11: once getClient() has resolved, no output of the QueryService and no
\* exception of a single call makes the run fail: a step enters the failed run
\* (the error event) only from the await of getClient().
C11_NoErrorAfterClient ==
    [][(stage # "failed" /\ stage' = "failed") => stage = "connecting"]_vars


\* The dates whose QueryService call is answered in this step by a text with no
\* bracketed array or with a bracketed span that is not JSON.
NotFoundAnswers ==
    { d \in DOMAIN fetch \cap DOMAIN fetch' :
        /\ fetch[d].pc = "calling"
        /\ fetch'[d].pc # "calling"
        /\ served'[d].kind \in {"no match", "invalid"} }

\* C12: in the fetch stage an answer without a bracketed array, or whose
\* bracketed span is not JSON, is a 'not found' and no exception: the date's
\* fetch returns at once with zero emails, no retry is scheduled and the breaker
\* records no failure.
C12_NotFoundIsNoFailure ==
    [][\A d \in NotFoundAnswers :
          /\ fetch'[d].pc = "ok"
          /\ dayResults'[d] = [threw |-> FALSE, value |-> <<>>]
          /\ workIqCircuitBreaker'.state.failures <= workIqCircuitBreaker.state.failures
          /\ d \notin failedUnits'.dates]_vars


(***************************************************************************)
(* Claims about the merge stage (SpecMerge)                                *)
(***************************************************************************)

\* The groups whose record is there: processGroup and the catch around it are over.
GroupsDone == { g \in DOMAIN group : group[g].pc = "done" }

\* The sources, and the URLs, of the items of a group, in member order.
SourcesOf(items) == [k \in DOMAIN items |-> items[k].source]
UrlsOf(items) == [k \in DOMAIN items |-> items[k].emailUrl]

\* No element of the sequence occurs twice.
NoDuplicates(q) == \A i, j \in DOMAIN q : q[i] = q[j] => i = j

\* The index at which x first occurs in q.
FirstIndex(q, x) == CHOOSE i \in DOMAIN q : q[i] = x /\ \A j \in 1..(i - 1) : q[j] # x

\* q lists the distinct elements of all, in the order of their first appearance.
IsFirstAppearances(q, all) ==
    /\ NoDuplicates(q)
    /\ Range(q) = Range(all)
    /\ \A i, j \in DOMAIN q : i < j => FirstIndex(all, q[i]) < FirstIndex(all, q[j])

\* C13: when the synthesis of a group of several items fails, the answer holding
\* no JSON object or the call throwing, the group's record has the anchor's
\* subject and summary, the distinct sources of all members in the order of
\* first appearance and the non-empty URLs of all members in member order.
C13_FallbackAggregates ==
    \A g \in GroupsDone :
        (Len(group[g].items) > 1 /\ group[g].answer.kind \in {"throws", "no match", "invalid"})
            => LET m == mergedItems[g].value
                   items == group[g].items
               IN  /\ m.subject = items[1].subject
                   /\ m.summary = items[1].summary
                   /\ IsFirstAppearances(m.sources, SourcesOf(items))
                   /\ m.emailUrls = SelectSeq(UrlsOf(items), LAMBDA u : u # "")

\* The distinct words (lowercase, longer than 4) two subjects share.
SharedWords(a, b) == Range(words(a)) \cap Range(words(b))

\* C14: an item is in an anchor's group exactly if its subject shares two
\* distinct words with the anchor's: every member of a group shares two with
\* the anchor, and no anchor shares two with an earlier anchor.
C14_TwoDistinctWords ==
    /\ \A g \in DOMAIN group : \A k \in 2..Len(group[g].items) :
          Cardinality(SharedWords(group[g].items[1], group[g].items[k])) >= 2
    /\ \A g, h \in DOMAIN group :
          g < h => Cardinality(SharedWords(group[g].items[1], group[h].items[1])) < 2

\* The number of times x occurs in q.
Count(q, x) == Cardinality({ i \in DOMAIN q : q[i] = x })

\* q and r hold the same elements the same number of times.
IsPermutation(q, r) ==
    /\ Len(q) = Len(r)
    /\ \A x \in Range(q) \cup Range(r) : Count(q, x) = Count(r, x)

\* q is r with some elements left out.
IsSubsequence(q, r) ==
    \E f \in [DOMAIN q -> DOMAIN r] :
        /\ \A i, j \in DOMAIN q : i < j => f[i] < f[j]
        /\ \A i \in DOMAIN q : r[f[i]] = q[i]

\* C15: the groups are a partition of the extracted stories and keep their
\* order of anchors, and when the merge stage is over there is one record per
\* group, in group order, over the group's items, whichever calls failed: every
\* story is in the originalItems of one record.
C15_Partition ==
    /\ stage \in {"merging", "complete"} =>
          /\ IsPermutation(flat([g \in DOMAIN group |-> group[g].items]), allNewsItems)
          /\ IsSubsequence([g \in DOMAIN group |-> group[g].items[1]], allNewsItems)
    /\ stage = "complete" =>
          /\ Len(mergedItems) = Len(group)
          /\ completeEvent.stats.afterMerge = Len(group)
          /\ \A g \in DOMAIN group : mergedItems[g].value.originalItems = group[g].items
          /\ IsPermutation(flat([g \in DOMAIN mergedItems |->
                                    mergedItems[g].value.originalItems]), allNewsItems)

\* C15's case: the merge stage is over with several groups, one of them of
\* several items whose call threw.
C15_Witness ==
    /\ stage = "complete"
    /\ Len(group) > 1
    /\ \E g \in failedUnits.groups : Len(group[g].items) > 1

\* The anchor's words found in the other's subject are two or more.
Matches(anchor, other) == Len(commonWords(words(anchor), words(other))) >= 2

\* The groups an assignment of an anchor index to every index makes: in the
\* order of the anchors, the members of each in input order.
GroupsOf(items, cl) ==
    LET anchors == ascending({ cl[i] : i \in DOMAIN items })
    IN  [g \in DOMAIN anchors |->
            LET members == ascending({ i \in DOMAIN items : cl[i] = anchors[g] })
            IN  [k \in DOMAIN members |-> items[members[k]]]]

\* C16: the groups come from an assignment in which the anchor of an item is
\* the earliest item of its group and every other member meets the threshold
\* against the anchor itself; an item that meets it against a member only is
\* in another group.
C16_Anchored ==
    stage \in {"merging", "complete"} =>
        \E cl \in [DOMAIN allNewsItems -> DOMAIN allNewsItems] :
            /\ \A i \in DOMAIN allNewsItems :
                  /\ cl[i] <= i
                  /\ cl[cl[i]] = cl[i]
                  /\ cl[i] # i => Matches(allNewsItems[cl[i]], allNewsItems[i])
            /\ [g \in DOMAIN group |-> group[g].items] = GroupsOf(allNewsItems, cl)

\* C16's case: the third story matches the second and not the first, the second
\* is in the first's group and the third is not.
C16_Witness ==
    /\ stage = "merging"
    /\ Len(allNewsItems) = 3
    /\ Matches(allNewsItems[1], allNewsItems[2])
    /\ Matches(allNewsItems[2], allNewsItems[3])
    /\ ~Matches(allNewsItems[1], allNewsItems[3])
    /\ [g \in DOMAIN group |-> group[g].items]
          = <<SubSeq(allNewsItems, 1, 2), SubSeq(allNewsItems, 3, 3)>>

\* C17: a group of one item has its record at once, with no QueryService call
\* made for it, and the record has the item's subject, summary and date and the
\* item as its originalItems.
C17_SingletonPassthrough ==
    \A g \in DOMAIN group :
        Len(group[g].items) = 1 =>
            /\ group[g].pc = "done"
            /\ group[g].answer.kind = "none"
            /\ g \notin failedUnits.groups
            /\ mergedItems[g].value.subject = group[g].items[1].subject
            /\ mergedItems[g].value.summary = group[g].items[1].summary
            /\ mergedItems[g].value.date = group[g].items[1].date
            /\ mergedItems[g].value.originalItems = <<group[g].items[1]>>

\* C17's case: the merge stage is over with a group of one item next to a group
\* of several.
C17_Witness ==
    /\ stage = "complete"
    /\ \E g, h \in DOMAIN group : Len(group[g].items) = 1 /\ Len(group[h].items) > 1

\* C18: the emailUrls of every record of the merge stage hold non-empty URLs only.
C18_UrlsNonEmpty ==
    \A g \in GroupsDone : \A i \in DOMAIN mergedItems[g].value.emailUrls :
        mergedItems[g].value.emailUrls[i] # ""

\* C19: the sources of every record of the merge stage hold no entry twice, and
\* every entry is the source of one of the record's originalItems.
C19_SourcesDistinct ==
    \A g \in GroupsDone :
        /\ NoDuplicates(mergedItems[g].value.sources)
        /\ Range(mergedItems[g].value.sources)
              \subseteq Range(SourcesOf(mergedItems[g].value.originalItems))

\* C19's case: a record made by a call that returned, over two items of the
\* same source.
C19_Witness ==
    \E g \in GroupsDone :
        /\ group[g].answer.kind \in {"object", "no match", "invalid"}
        /\ ~NoDuplicates(SourcesOf(group[g].items))
        /\ Len(mergedItems[g].value.sources) < Len(group[g].items)


(***************************************************************************)
(* Claims about the complete event (Spec)                                  *)
(***************************************************************************)

\* C20: the statistics of the complete event are the numbers of emails fetched,
\* of stories extracted, of records of the merge stage (one per group) and of
\* records in news; displayed is the smaller of afterMerge and maxNews, and
\* displayed <= afterMerge <= storiesExtracted, whichever units failed.
C20_StatsExact ==
    completeEvent.sent =>
        LET stats == completeEvent.stats
        IN  /\ stats.emailsFetched = Len(rawEmails)
            /\ stats.storiesExtracted = Len(allNewsItems)
            /\ stats.afterMerge = Len(mergedItems)
            /\ stats.afterMerge = Len(group)
            /\ stats.displayed = Len(completeEvent.news)
            /\ stats.displayed = min(stats.afterMerge, params.maxNews)
            /\ stats.displayed <= stats.afterMerge
            /\ stats.afterMerge <= stats.storiesExtracted

\* C20's case: a complete event of a run in which a batch and a group failed,
\* with fewer records than stories and fewer shown than records.
C20_Witness ==
    /\ completeEvent.sent
    /\ failedUnits.batches # {}
    /\ failedUnits.groups # {}
    /\ completeEvent.stats.displayed < completeEvent.stats.afterMerge
    /\ completeEvent.stats.afterMerge < completeEvent.stats.storiesExtracted


\* The date of the record is one Date can read.
HasParseableDate(m) == m.date # "" /\ ~DateGetTime(m.date).nan

\* C21: news is ordered by date descending: of two records with parseable
\* dates the one with the later date comes first, and a record whose date is
\* missing or unparseable comes after every record with a parseable date.
C21_SortedByDate ==
    completeEvent.sent =>
        \A i, j \in DOMAIN completeEvent.news :
            i < j =>
                LET a == completeEvent.news[i]
                    b == completeEvent.news[j]
                IN  /\ (HasParseableDate(a) /\ HasParseableDate(b))
                          => DateGetTime(a.date).t >= DateGetTime(b.date).t
                    /\ HasParseableDate(b) => HasParseableDate(a)


\* A terminal event has been sent for the run: complete or error.
Terminal == stage \in {"complete", "failed"}

\* A run is under way.
InProgress == stage \in {"connecting", "fetching", "extracting", "merging"}

RECURSIVE Sum(_)
\* The sum of a sequence of numbers.
Sum(q) == IF q = <<>> THEN 0 ELSE Head(q) + Sum(Tail(q))

\* The awaits a date's fetch has ahead of it at most: calls and sleeps.
AwaitsLeft(d) ==
    CASE fetch[d].pc = "calling" -> 2 * (fetchDayOptions.maxRetries - fetch[d].attempt) + 1
      [] fetch[d].pc = "sleeping" -> 2 * (fetchDayOptions.maxRetries - fetch[d].attempt)
      [] OTHER -> 0

\* The steps the run has ahead of it at most.
StepsLeft ==
    CASE stage = "connecting" -> 400
      [] stage = "fetching" -> 300 + Sum([d \in DOMAIN fetch |-> AwaitsLeft(d)])
      [] stage = "extracting" ->
            200 + Cardinality({ b \in DOMAIN batch : batch[b].pc = "calling" })
      [] stage = "merging" ->
            100 + Cardinality({ g \in DOMAIN group : group[g].pc = "calling" })
      [] OTHER -> 0

\* C22: a run sends one terminal event and nothing after it. While the run is
\* under way a step of it is always possible and every step brings it nearer
\* to its end, so it comes to a terminal event when every await settles; the
\* complete event is there exactly in a run that ended with it, never in one
\* that ended with the error event; and after the terminal event nothing of the
\* run changes (no status event, no restart) until another request starts
\* another run.
C22_OneTerminalEvent ==
    /\ [](InProgress => ENABLED RunStep)
    /\ [][(InProgress /\ run' = run)
            => StepsLeft' < StepsLeft]_<<pipelineVars, workIqCircuitBreaker>>
    /\ [](completeEvent.sent <=> stage = "complete")
    /\ [][Terminal => (UNCHANGED pipelineVars \/ (run' = run + 1 /\ stage' = "connecting"))]_vars

\* C22's case: a second run has ended with the complete event after a first
\* that ended with the error event.
C22_Witness ==
    /\ run = 2
    /\ stage = "complete"
    /\ client = "broken"


(***************************************************************************)
(* Claims about the QueryService sessions (SpecSession)                    *)
(***************************************************************************)

\* The sessions of a unit that are created and not destroyed.
OpenSessions(u) == u.created - u.destroyed

\* C23: every session a unit creates is destroyed once, whether sendAndWait
\* returned or threw, and before the unit reports: a unit has one session open
\* exactly between its createSession and the end of its destroy, none
\* otherwise, never more destroys than sessions, and when the Promise.all of
\* the stage is over no session of the stage is open.
C23_SessionsDestroyed ==
    sessions.kind \in UnitKinds =>
        /\ \A i \in DOMAIN sessions.units :
              LET u == sessions.units[i]
              IN  /\ OpenSessions(u) = IF u.pc \in {"sendAndWait", "destroy"} THEN 1 ELSE 0
                  /\ u.created = IF u.pc \in {"sendAndWait", "destroy"}
                                 THEN u.destroyed + 1 ELSE u.destroyed
        /\ sessions.settled =>
              \A i \in DOMAIN sessions.units : OpenSessions(sessions.units[i]) = 0

\* C23's case: the stage is over, a unit has had three sessions, the last with
\* a sendAndWait that threw, next to a unit whose call returned.
C23_Witness ==
    /\ sessions.kind = "fetchDay"
    /\ sessions.settled
    /\ \E i, j \in DOMAIN sessions.units :
          /\ sessions.units[i].pc = "caught"
          /\ sessions.units[i].created = 3
          /\ sessions.units[i].destroyed = 3
          /\ sessions.units[j].pc = "returned"
          /\ sessions.units[j].destroyed = 1

\* C31: in the second implementation of the handler too, the exception of the
\* QueryService call of a date, a batch or a cluster becomes the empty or the
\* fallback result of its unit: no unit's promise is rejected, and the
\* Promise.all of the stage never rejects to the catch of the handler.
C31_SecondIsolation ==
    sessions.kind \in SecondKinds =>
        /\ ~sessions.rejected
        /\ \A i \in DOMAIN sessions.units : sessions.units[i].pc # "uncaught"

\* C38: the handlers of the legacy endpoints destroy the session they create
\* whether sendAndWait returns or throws: when the response is sent, no
\* session of the request is open.
C38_LegacyDestroys ==
    (sessions.kind \in LegacyKinds /\ sessions.settled) =>
        \A i \in DOMAIN sessions.units : OpenSessions(sessions.units[i]) = 0


(***************************************************************************)
(* Claims about the client of the QueryService (Spec)                      *)
(***************************************************************************)

\* C24: a run during which the client of the QueryService is not started ends
\* failed, in its first run and in every later one: while `client` is not a
\* started client the run is at its connection or has sent the error event,
\* and no complete event has been sent.
C24_UnstartedClientFails ==
    client # "started" =>
        /\ stage \in {"idle", "connecting", "failed"}
        /\ ~completeEvent.sent


(***************************************************************************)
(* Claims about the event stream (SpecStream)                              *)
(***************************************************************************)

\* The request's close or error event has been handled.
Disconnected == stream.request # "open"

\* The handler has not reached its end.
Running == stream.pc \notin {"complete", "failed"}

\* C25: once the close or the error event of the request has been handled
\* nothing more is written to the response, no status, terminal or heartbeat
\* event; the disconnection itself leaves the handler where it is, with its
\* QueryService calls pending, and the handler can take its next step in
\* every state short of its end, so the calls settle and the stages run on.
C25_SilentAfterDisconnect ==
    /\ [][Disconnected => stream'.written = stream.written]_vars
    /\ [][(~Disconnected /\ Disconnected') =>
             (stream'.pc = stream.pc /\ stream'.pending = stream.pending)]_vars
    /\ []((Disconnected /\ Running) => ENABLED HandlerStep)

\* C25's case: the request closed while calls of the fetch stage were pending,
\* after a status and a heartbeat event; the run has gone through its stages to
\* where the complete event is sent, and nothing more has been written.
C25_Witness ==
    /\ stream.request = "close"
    /\ stream.pc = "complete"
    /\ stream.written = [status |-> 2, heartbeat |-> 1, complete |-> 0, error |-> 0]


(***************************************************************************)
(* Claims about ids (SpecMerge)                                            *)
(***************************************************************************)

\* The records of the sequence have pairwise distinct ids.
IdsDistinct(records) ==
    \A i, j \in DOMAIN records : i # j => records[i].id # records[j].id

\* C26: in a run the ids of the RawEmails are pairwise distinct, and so are the
\* ids of the MergedNewsItems of the result, whatever ids the QueryService gave
\* the stories.
C26_IdsUnique ==
    /\ IdsDistinct(rawEmails)
    /\ completeEvent.sent => IdsDistinct(completeEvent.news)


(***************************************************************************)
(* Claims about getDateRange (SpecDates)                                   *)
(***************************************************************************)

\* The number a character stands for as a decimal digit, -1 when it is none.
DigitValue(c) ==
    IF \E k \in 1..10 : DigitChars[k] = c
    THEN (CHOOSE k \in 1..10 : DigitChars[k] = c) - 1
    ELSE -1

\* The string is YYYY-MM-DD: ten characters, digits but for the two hyphens.
IsDateString(str) ==
    /\ Len(str) = 10
    /\ str[5] = "-" /\ str[8] = "-"
    /\ \A k \in {1, 2, 3, 4, 6, 7, 9, 10} : DigitValue(str[k]) >= 0

\* The year, month (1..12) and day a YYYY-MM-DD string names.
ParseDate(str) ==
    [y |-> 1000 * DigitValue(str[1]) + 100 * DigitValue(str[2])
              + 10 * DigitValue(str[3]) + DigitValue(str[4]),
     m |-> 10 * DigitValue(str[6]) + DigitValue(str[7]),
     d |-> 10 * DigitValue(str[9]) + DigitValue(str[10])]

\* The date is one of the calendar.
IsCalendarDate(c) ==
    /\ c.m \in 1..12
    /\ c.d >= 1
    /\ c.d <= IF c.m = 2
              THEN (IF c.y % 400 = 0 \/ (c.y % 4 = 0 /\ c.y % 100 # 0) THEN 29 ELSE 28)
              ELSE IF c.m \in {4, 6, 9, 11} THEN 30 ELSE 31

\* The number of the calendar date in the count of days of the proleptic
\* Gregorian calendar (from 0000-03-01).
DayNumber(c) ==
    LET yy == IF c.m > 2 THEN c.y ELSE c.y - 1
        mm == IF c.m > 2 THEN c.m - 3 ELSE c.m + 9
    IN  365 * yy + (yy \div 4) - (yy \div 100) + (yy \div 400)
            + ((153 * mm + 2) \div 5) + c.d - 1

\* C27: getDateRange(n), n >= 1, returns n distinct YYYY-MM-DD strings of dates
\* of the calendar: the first is today's date in local time and each one after
\* it is the day before its predecessor, over the ends of months and years
\* too.
C27_DateRange ==
    LET dates == dateRange.dates
        today == dateRange.now
    IN  dateRange.returned =>
            /\ Len(dates) = dateRange.days
            /\ \A k \in DOMAIN dates :
                  IsDateString(dates[k]) /\ IsCalendarDate(ParseDate(dates[k]))
            /\ ParseDate(dates[1]) = [y |-> today.year, m |-> today.month + 1,
                                      d |-> today.date]
            /\ \A k \in DOMAIN dates :
                  k > 1 => DayNumber(ParseDate(dates[k]))
                              = DayNumber(ParseDate(dates[k - 1])) - 1
            /\ \A j, k \in DOMAIN dates : j # k => dates[j] # dates[k]

\* C27's case: on 2025-01-01, at a time of day at which it is 2025-01-02 in
\* UTC, the 33 days returned go back over the end of the year and of two
\* months, to 2024-11-30.
C27_Witness ==
    /\ dateRange.returned
    /\ dateRange.now = [year |-> 2025, month |-> 0, date |-> 1, utcAhead |-> 1]
    /\ dateRange.days = 33
    /\ dateRange.dates[1] = <<"2", "0", "2", "5", "-", "0", "1", "-", "0", "1">>
    /\ dateRange.dates[2] = <<"2", "0", "2", "4", "-", "1", "2", "-", "3", "1">>
    /\ dateRange.dates[33] = <<"2", "0", "2", "4", "-", "1", "1", "-", "3", "0">>


(***************************************************************************)
(* Claims about the extraction of JSON from a response (SpecExtract)       *)
(***************************************************************************)

\* C28: for a JSON array (array mode) or a JSON object (object mode) that a
\* response embeds in any prose, bare or in a json code fence, the extraction
\* returns a value deep-equal to the embedded one.
C28_RoundTrip ==
    extraction.returned => extraction.result = extraction.embedded


(***************************************************************************)
(* Claims about the callbacks and the state of the breaker (SpecCB)        *)
(***************************************************************************)

\* C29: onClose fires only when an operation succeeds and the breaker had been
\* open, so never in an execute call whose operation fails; and onOpen and
\* onClose fire in turn, onOpen first: onOpen fires when both have fired
\* equally often, onClose when onOpen has fired once more than it.
C29_CloseOnlyOnSuccess ==
    [][ /\ (workIqCircuitBreaker'.onClose # workIqCircuitBreaker.onClose)
            => /\ IsResolveStep
               /\ workIqCircuitBreaker.state.isOpen
               /\ workIqCircuitBreaker.onOpen = workIqCircuitBreaker.onClose + 1
        /\ (workIqCircuitBreaker'.onOpen # workIqCircuitBreaker.onOpen)
            => workIqCircuitBreaker.onOpen = workIqCircuitBreaker.onClose
      ]_vars


\* C30: whatever the interleaving of the execute calls, the state of the
\* breaker is consistent: isOpen is true exactly when failures >=
\* failureThreshold; and failures is the number of failures recorded since the
\* last reset, no increment and no reset being lost: a failing operation adds
\* one, whatever has happened since its call started, and records its time, a
\* succeeding operation and the execute call that finds the cooldown elapsed
\* leave zero, and nothing else changes the count.
C30_StateConsistent ==
    /\ [](workIqCircuitBreaker.state.isOpen
            <=> workIqCircuitBreaker.state.failures >= failureThreshold)
    /\ [][ /\ IsRejectStep =>
                /\ workIqCircuitBreaker'.state.failures
                      = workIqCircuitBreaker.state.failures + 1
                /\ workIqCircuitBreaker'.state.lastFailure = now
           /\ IsResolveStep => workIqCircuitBreaker'.state = InitialState
           /\ IsExecuteStep =>
                workIqCircuitBreaker'.state =
                    IF workIqCircuitBreaker.state.isOpen
                            /\ CooledDown(workIqCircuitBreaker, now)
                    THEN InitialState
                    ELSE workIqCircuitBreaker.state
           /\ ~(IsRejectStep \/ IsResolveStep \/ IsExecuteStep) =>
                workIqCircuitBreaker'.state = workIqCircuitBreaker.state
         ]_vars

\* C30's case: calls interleave. After a failure and a success that reset the
\* count, seven calls were admitted together; six of them have failed, which
\* leaves the breaker open with a count above the threshold, and one is
\* still in flight.
C30_Witness ==
    /\ succeeded = 1
    /\ failed = failureThreshold + 2
    /\ inflight = 1
    /\ workIqCircuitBreaker.state.isOpen
    /\ workIqCircuitBreaker.state.failures = failureThreshold + 1


(***************************************************************************)
(* Claims about the stages of a run (Spec)                                 *)
(***************************************************************************)

\* C32: the stages are separated by barriers. The run leaves the fetch stage,
\* and with that step starts the calls of the batches and sends the status
\* event of the stage, only when every date has returned, given up after its
\* retries and sleeps, or been rejected; it leaves the extraction stage, and
\* starts the calls of the groups, only when every batch is done, and the merge
\* stage only when every group is done. No call of a stage is in flight outside
\* its stage.
C32_StageBarriers ==
    [][ /\ (stage = "fetching" /\ stage' # "fetching")
            => \A d \in DOMAIN fetch : fetch[d].pc \in {"ok", "failed", "rejected"}
        /\ (stage = "extracting" /\ stage' # "extracting")
            => \A b \in DOMAIN batch : batch[b].pc = "done"
        /\ (stage = "merging" /\ stage' # "merging")
            => \A g \in DOMAIN group : group[g].pc = "done"
        /\ (\E d \in DOMAIN fetch' : fetch'[d].pc \in {"calling", "sleeping"})
            => stage' = "fetching"
        /\ (\E b \in DOMAIN batch' : batch'[b].pc = "calling") => stage' = "extracting"
        /\ (\E g \in DOMAIN group' : group'[g].pc = "calling") => stage' = "merging"
      ]_vars

\* C32's case: the calls of the batches are in flight in a run in which a date
\* gave up after its retries and another returned emails.
C32_Witness ==
    /\ stage = "extracting"
    /\ failedUnits.dates # {}
    /\ rawEmails # <<>>
    /\ \E b \in DOMAIN batch : batch[b].pc = "calling"


\* The failures the breaker counts.
Failures == workIqCircuitBreaker.state.failures

\* C36: a date adds at most one failure to the breaker in a run. The count
\* goes up only in the step in which a date gives up, by one, and a date gives
\* up only when its third attempt (attempt 2, after maxRetries = 2 retries) has
\* thrown, and stays given up; a failed attempt that is retried leaves the
\* breaker as it is; and a date that returns on any attempt is a success of
\* the breaker: the count is zero and the breaker closed after it.
C36_OneFailurePerDate ==
    [][ /\ \A d \in DOMAIN fetch \cap DOMAIN fetch' :
              /\ (fetch[d].pc = "calling" /\ fetch'[d].pc = "failed")
                    => (fetch[d].attempt = 2 /\ Failures' = Failures + 1)
              /\ (fetch[d].pc = "calling" /\ fetch'[d].pc = "sleeping")
                    => (fetch[d].attempt < 2
                            /\ workIqCircuitBreaker' = workIqCircuitBreaker)
              /\ (fetch[d].pc = "calling" /\ fetch'[d].pc = "ok")
                    => (Failures' = 0 /\ ~workIqCircuitBreaker'.state.isOpen)
              /\ fetch[d].pc = "failed" => fetch'[d].pc = "failed"
        /\ Failures' > Failures
              => /\ Failures' = Failures + 1
                 /\ \E d \in DOMAIN fetch \cap DOMAIN fetch' :
                       fetch[d].pc = "calling" /\ fetch'[d].pc = "failed"
      ]_vars

\* C36's case: a date returned on its second attempt, then another gave up
\* after its third: the breaker counts one failure.
C36_Witness ==
    /\ stage = "fetching"
    /\ Failures = 1
    /\ \E d, e \in DOMAIN fetch :
          /\ fetch[d].pc = "failed" /\ fetch[d].attempt = 2
          /\ fetch[e].pc = "ok" /\ fetch[e].attempt = 1


\* C39: the QueryService calls of a run are bounded by its units. A date makes
\* at most 3 calls: its attempts are 0, 1 and 2, a new call is made only after
\* a backoff sleep, and a rejected date makes none. The extraction stage
\* starts one call for each of the ceil(n / 5) batches of its n emails, and the
\* merge stage one call for each group of several stories and none for a group
\* of one; a unit that is done makes no further call. A run with no fetched
\* email has no batch and no group, does not fail, and completes with an empty
\* news list and all statistics zero.
C39_CallsBounded ==
    [][ /\ \A d \in DOMAIN fetch' :
              /\ fetch'[d].attempt \in 0..2
              /\ fetch'[d].pc = "rejected" => fetch'[d].attempt = 0
        /\ \A d \in DOMAIN fetch \cap DOMAIN fetch' :
              (fetch'[d].pc = "calling" /\ fetch'[d] # fetch[d])
                  => /\ fetch[d].pc = "sleeping"
                     /\ fetch'[d].attempt = fetch[d].attempt + 1
        /\ (stage = "fetching" /\ stage' = "extracting")
              => /\ Len(batch') = (Len(rawEmails') + 4) \div 5
                 /\ \A b \in DOMAIN batch' : batch'[b].pc = "calling"
        /\ \A b \in DOMAIN batch \cap DOMAIN batch' :
              batch[b].pc = "done" => batch'[b] = batch[b]
        /\ (stage = "extracting" /\ stage' = "merging")
              => \A g \in DOMAIN group' :
                    group'[g].pc = IF Len(group'[g].items) > 1 THEN "calling" ELSE "done"
        /\ \A g \in DOMAIN group \cap DOMAIN group' :
              group[g].pc = "done" => group'[g] = group[g]
        /\ (stage' \in {"extracting", "merging", "complete"} /\ rawEmails' = <<>>)
              => /\ batch' = <<>> /\ group' = <<>>
                 /\ stage' = "complete" =>
                       completeEvent' =
                           [sent |-> TRUE, news |-> <<>>,
                            stats |-> [emailsFetched |-> 0, storiesExtracted |-> 0,
                                       afterMerge |-> 0, displayed |-> 0]]
        /\ (stage \in {"extracting", "merging"} /\ rawEmails = <<>>) => stage' # "failed"
      ]_vars

\* C39's case: in the merge stage a group of one story is done without a call
\* next to a group of several stories whose call is in flight.
C39_Witness ==
    /\ stage = "merging"
    /\ \E g, h \in DOMAIN group :
          /\ Len(group[g].items) = 1 /\ group[g].pc = "done"
          /\ group[g].answer.kind = "none"
          /\ Len(group[h].items) > 1 /\ group[h].pc = "calling"

\* The times the email is in a batch.
TimesBatched(batches, e) ==
    Sum([b \in DOMAIN batches |-> Count(batches[b], e)])

\* C40: the batches of the extraction stage are a partition of the fetched
\* emails into runs of 5: joined in order they are the fetched sequence, every
\* batch but the last has 5 emails, the last has 1 to 5, none is empty, every
\* email is in one batch, and the stage has one unit for each.
C40_BatchPartition ==
    LET batches == Batches(rawEmails)
    IN  /\ flat(batches) = rawEmails
        /\ \A b \in DOMAIN batches :
              /\ Len(batches[b]) \in 1..5
              /\ b < Len(batches) => Len(batches[b]) = 5
        /\ \A i \in DOMAIN rawEmails : TimesBatched(batches, rawEmails[i]) = 1
        /\ stage = "extracting" => DOMAIN batch = DOMAIN batches

\* C40's case: more emails than a batch holds are fetched: the stage has a
\* full batch and a last one that is not full.
C40_Witness ==
    /\ stage = "extracting"
    /\ Len(rawEmails) = 6
    /\ Len(batch) = 2


(***************************************************************************)
(* Claims about runs in one process (Spec)                                 *)
(***************************************************************************)

\* C34: a run's outcome does not depend on the runs before it. When a run
\* starts its date fetches, the dates it sends to the QueryService are those a
\* process that has just started would send at that time: all of them.
C34_RunsIndependent ==
    [][ (stage = "connecting" /\ stage' = "fetching")
            => /\ admit(workIqCircuitBreaker, now, params.days).open
                    = admit(NewCircuitBreaker, now, params.days).open
               /\ \A d \in DOMAIN fetch' : fetch'[d].pc = "calling"
      ]_vars


\* C37: every run comes to its terminal event. With every call of the
\* QueryService settling and every backoff sleep elapsing, a run that awaits
\* its client has in the end sent the complete event or the error event,
\* whatever units failed and whether or not the breaker was open.
C37_RunTerminates == (stage = "connecting") ~> Terminal

\* C37's case: a run all of whose dates failed, the breaker open, has come to
\* its complete event.
C37_Witness ==
    /\ stage = "complete"
    /\ completeEvent.sent
    /\ workIqCircuitBreaker.state.isOpen
    /\ failedUnits.dates = 1..params.days


(***************************************************************************)
(* Claims about getClient() under concurrent requests (SpecClient)         *)
(***************************************************************************)

\* C33: whatever the order in which the requests take their steps, one client
\* at most is constructed in the process, and a request that has called
\* createSession on the client it got from getClient got it after the start()
\* of that client had returned.
C33_OneStartedClient ==
    /\ requests.constructed <= 1
    /\ \A i \in DOMAIN requests.req :
          requests.req[i].pc = "session" => requests.req[i].client = "started"


(***************************************************************************)
(* Claims about the two runs of SpecAdvisory                               *)
(***************************************************************************)

====
